---- MODULE Spec2Model ----
(***************************************************************************)
(* Model of the declarative binding engine in app/static/vendor/htmx.js:   *)
(* trigger parsing, parameter collection, target resolution, swapping,     *)
(* the request lifecycle with its shared loading indicator, and the        *)
(* completion notification.                                                *)
(*                                                                         *)
(* Text the code inspects character by character (trigger specs, request   *)
(* paths, control names and values) is a sequence of one-character         *)
(* strings.  Markup is opaque to the engine: it is a sequence of pieces,   *)
(* and concatenating markup concatenates the pieces.                       *)
(***************************************************************************)
EXTENDS Integers, Sequences, FiniteSets, TLC

\* ------------------------------------------------------------------ bounds

\* Longest trigger spec that is enumerated exhaustively over Alphabet.
MaxLen == 4
\* Most requestFor calls (trigger activations) in one run.
MaxFirings == 3

\* ------------------------------------------------------------ text helpers

\* getAttribute's null for an attribute whose text the code inspects: a
\* sequence that is no text, since its one element is not a character.
NoAttr == <<"null">>
\* getAttribute's null for an attribute the code only compares or hands to
\* querySelector (hx-target, hx-swap, hx-include, hx-indicator, name).
None == "null"
\* querySelector's result when nothing matches, and a missing indicator.
Null == "null-node"

Digits == {"0", "1", "2", "3", "4", "5", "6", "7", "8", "9"}

DigitVal(c) ==
  CASE c = "0" -> 0 [] c = "1" -> 1 [] c = "2" -> 2 [] c = "3" -> 3
    [] c = "4" -> 4 [] c = "5" -> 5 [] c = "6" -> 6 [] c = "7" -> 7
    [] c = "8" -> 8 [] c = "9" -> 9

\* JavaScript truthiness of an attribute value: null and "" are falsy.
Truthy(v) == v # NoAttr /\ v # <<>>
TruthyAttr(v) == v # None /\ v # ""

\* The vertical tab, U+000B.
VerticalTab == ""

\* The white space and line terminators String.prototype.trim strips, of the
\* ASCII characters: U+0009 to U+000D and the space. The texts of this module
\* are ASCII; trim strips as well U+00A0, U+1680, U+2000 to U+200A, U+2028,
\* U+2029, U+202F, U+205F, U+3000 and U+FEFF.
WhiteSpace == {" ", "\t", "\n", VerticalTab, "\f", "\r"}

IsSpace(c) == c \in WhiteSpace

RECURSIVE TrimLeft(_)
TrimLeft(s) ==
  IF s # <<>> /\ IsSpace(Head(s)) THEN TrimLeft(Tail(s)) ELSE s

RECURSIVE TrimRight(_)
TrimRight(s) ==
  IF s # <<>> /\ IsSpace(s[Len(s)]) THEN TrimRight(SubSeq(s, 1, Len(s) - 1))
  ELSE s

\* String.prototype.trim
Trim(s) == TrimRight(TrimLeft(s))

\* String.prototype.split(","): cur is the segment read so far.
RECURSIVE SplitFrom(_, _)
SplitFrom(s, cur) ==
  IF s = <<>> THEN <<cur>>
  ELSE IF Head(s) = "," THEN <<cur>> \o SplitFrom(Tail(s), <<>>)
  ELSE SplitFrom(Tail(s), Append(cur, Head(s)))

Split(s) == SplitFrom(s, <<>>)

\* Array.prototype.filter(Boolean) on strings: the empty string is dropped.
RECURSIVE FilterNonEmpty(_)
FilterNonEmpty(q) ==
  IF q = <<>> THEN <<>>
  ELSE IF Head(q) = <<>> THEN FilterNonEmpty(Tail(q))
  ELSE <<Head(q)>> \o FilterNonEmpty(Tail(q))

StartsWith(s, p) == Len(s) >= Len(p) /\ SubSeq(s, 1, Len(p)) = p

\* String.prototype.includes for a one-character needle.
Includes(s, c) == \E i \in 1..Len(s) : s[i] = c

\* ------------------------------------------------------------ trigger parser

click == <<"c", "l", "i", "c", "k">>
load == <<"l", "o", "a", "d">>
everyPrefix == <<"e", "v", "e", "r", "y", " ">>

DEFAULT_TRIGGER == click

\* parseTriggers: absent or empty gives the default; otherwise split on
\* commas, trim every entry and drop the empty ones.
parseTriggers(value) ==
  IF ~Truthy(value) THEN <<DEFAULT_TRIGGER>>
  ELSE FilterNonEmpty([i \in 1..Len(Split(value)) |-> Trim(Split(value)[i])])

Drop(s, n) == SubSeq(s, n + 1, Len(s))

RECURSIVE LeadingDigits(_)
LeadingDigits(s) ==
  IF s # <<>> /\ Head(s) \in Digits THEN <<Head(s)>> \o LeadingDigits(Tail(s))
  ELSE <<>>

RECURSIVE ToNat(_)
ToNat(ds) ==
  IF ds = <<>> THEN 0 ELSE ToNat(SubSeq(ds, 1, Len(ds) - 1)) * 10 + DigitVal(ds[Len(ds)])

RECURSIVE Pow10(_)
Pow10(k) == IF k = 0 THEN 1 ELSE 10 * Pow10(k - 1)

\* raw.match(/^(\d+(?:\.\d+)?)(ms|s)?$/): the digits, an optional fraction
\* (a dot followed by at least one digit), an optional unit, nothing else.
MatchInterval(raw) ==
  LET ip == LeadingDigits(raw)
      r1 == Drop(raw, Len(ip))
      hasFrac == r1 # <<>> /\ Head(r1) = "." /\ LeadingDigits(Tail(r1)) # <<>>
      fp == IF hasFrac THEN LeadingDigits(Tail(r1)) ELSE <<>>
      r2 == IF hasFrac THEN Drop(r1, 1 + Len(fp)) ELSE r1
  IN [ok |-> ip # <<>> /\ r2 \in {<<>>, <<"m", "s">>, <<"s">>},
      int |-> ip, frac |-> fp, unit |-> r2]

\* ------------------------------------------- Number and double arithmetic

\* A whole number as its binary digits, the first one first, and back.
RECURSIVE Bits(_)
Bits(n) == IF n = 0 THEN <<>> ELSE Append(Bits(n \div 2), n % 2)

RECURSIVE FromBits(_)
FromBits(b) ==
  IF b = <<>> THEN 0 ELSE 2 * FromBits(SubSeq(b, 1, Len(b) - 1)) + b[Len(b)]

\* Binary digits without the zeros they start with.
StripZeros(b) ==
  IF \A i \in 1..Len(b) : b[i] = 0 THEN <<>>
  ELSE SubSeq(b, CHOOSE i \in 1..Len(b) :
                   b[i] = 1 /\ \A j \in 1..(i - 1) : b[j] = 0,
              Len(b))

Zeros(n) == [i \in 1..n |-> 0]

\* A whole number below two to the power of w as w binary digits.
Padded(n, w) == Zeros(w - Len(Bits(n))) \o Bits(n)

\* Binary digits b, a multiple of 14 of them, divided by the whole number d,
\* at most 100000, from digit i on with r carried: the digits of the
\* quotient and the remainder, 14 digits at a time.
RECURSIVE DivFrom(_, _, _, _)
DivFrom(b, d, i, r) ==
  IF i > Len(b) THEN [q |-> <<>>, r |-> r]
  ELSE LET t == r * 16384 + FromBits(SubSeq(b, i, i + 13))
           rest == DivFrom(b, d, i + 14, t % d)
       IN [q |-> Padded(t \div d, 14) \o rest.q, r |-> rest.r]

DivSmall(b, d) ==
  LET r == DivFrom(Zeros((14 - (Len(b) % 14)) % 14) \o b, d, 1, 0)
  IN [q |-> StripZeros(r.q), r |-> r.r]

\* Binary digits b times the whole number k, at most 1000, from digit hi
\* back with c carried, 18 digits at a time.
RECURSIVE TimesFrom(_, _, _, _)
TimesFrom(b, k, hi, c) ==
  IF hi = 0 THEN Bits(c)
  ELSE LET lo == IF hi > 18 THEN hi - 17 ELSE 1
           w == hi - lo + 1
           t == FromBits(SubSeq(b, lo, hi)) * k + c
       IN TimesFrom(b, k, lo - 1, t \div (2 ^ w)) \o Padded(t % (2 ^ w), w)

\* Binary digits b, not all of them 1 or else none, plus one.
PlusOne(b) ==
  IF \A i \in 1..Len(b) : b[i] = 1 THEN <<1>> \o Zeros(Len(b))
  ELSE LET z == CHOOSE i \in 1..Len(b) :
                  b[i] = 0 /\ \A j \in (i + 1)..Len(b) : b[j] = 1
       IN SubSeq(b, 1, z - 1) \o <<1>> \o Zeros(Len(b) - z)

\* The double nearest to the binary digits b, with more below them when
\* sticky: 53 digits are kept, the others dropped, ties to the even one.
\* The double is m times two to the power of dropped.
RoundToDouble(b, sticky) ==
  IF Len(b) <= 53 THEN [m |-> b, dropped |-> 0]
  ELSE LET kept == SubSeq(b, 1, 53)
           more == sticky \/ \E i \in 55..Len(b) : b[i] = 1
           up == b[54] = 1 /\ (more \/ kept[53] = 1)
       IN [m |-> IF up THEN PlusOne(kept) ELSE kept, dropped |-> Len(b) - 53]

\* Number(text) for digits with an optional fraction: the double nearest to
\* the decimal, as m times two to the power of e.
NumberOf(int, frac) ==
  LET k == Len(frac)
      s == 54 + 4 * k
      k1 == IF k > 5 THEN 5 ELSE k
      d1 == DivSmall(Bits(ToNat(int \o frac)) \o Zeros(s), Pow10(k1))
      d2 == DivSmall(d1.q, Pow10(k - k1))
      r == RoundToDouble(d2.q, d1.r # 0 \/ d2.r # 0)
  IN IF ToNat(int \o frac) = 0 THEN [m |-> <<>>, e |-> 0]
     ELSE IF k = 0 THEN [m |-> Bits(ToNat(int)), e |-> 0]
     ELSE [m |-> r.m, e |-> r.dropped - s]

\* value * 1000 in doubles: the product, rounded to a double once more.
Times1000(x) ==
  LET r == RoundToDouble(StripZeros(TimesFrom(x.m, 1000, Len(x.m), 0)), FALSE)
  IN [m |-> r.m, e |-> x.e + r.dropped]

\* The whole number of milliseconds a timer takes from a double that is not
\* negative: the fraction is cut off.
ToLong(x) ==
  IF x.e >= 0 THEN FromBits(x.m \o Zeros(x.e))
  ELSE IF -x.e >= Len(x.m) THEN 0
  ELSE FromBits(SubSeq(x.m, 1, Len(x.m) + x.e))

\* value = Number(match[1]); interval = unit === "s" ? value * 1000 : value,
\* computed in doubles, as the whole number of milliseconds setInterval
\* takes from it.
IntervalOf(m) ==
  LET value == NumberOf(m.int, m.frac)
  IN ToLong(IF m.unit = <<"s">> THEN Times1000(value) ELSE value)

ReadyDescriptor == [kind |-> "ready", name |-> <<>>, periodMs |-> 0]
IntervalDescriptor(p) == [kind |-> "interval", name |-> <<>>, periodMs |-> p]
EventDescriptor(n) == [kind |-> "event", name |-> n, periodMs |-> 0]

\* What setupElement registers for one parsed trigger: nothing for a
\* malformed interval, otherwise one descriptor.
Registration(trigger) ==
  IF trigger = load THEN <<ReadyDescriptor>>
  ELSE IF StartsWith(trigger, everyPrefix)
  THEN LET m == MatchInterval(Trim(Drop(trigger, Len(everyPrefix))))
       IN IF ~m.ok THEN <<>> ELSE <<IntervalDescriptor(IntervalOf(m))>>
  ELSE <<EventDescriptor(trigger)>>

RECURSIVE Registrations(_)
Registrations(triggers) ==
  IF triggers = <<>> THEN <<>>
  ELSE Registration(Head(triggers)) \o Registrations(Tail(triggers))

\* The descriptors setupElement registers for a trigger spec.
Descriptors(value) == Registrations(parseTriggers(value))

\* ------------------------------------------------------------------ the page

\* The elements that may carry a request declaration, in document order.
Elems == <<"e1", "e2">>
ElemSet == {"e1", "e2"}
\* Every node of the page: the document element, the body, and in the body
\* the declaring elements, a target, an indicator and the form that holds
\* the controls.  A node's name is its id, so "#out" selects the node "out".
Nodes == ElemSet \cup {"root", "body", "out", "spinner", "form"}

\* The nodes below a node in the tree the page starts with.
Descendants(n) ==
  CASE n = "root" -> Nodes \ {"root"}
    [] n = "body" -> Nodes \ {"root", "body"}
    [] OTHER -> {}

VARIABLES
  readyState,  \* document.readyState: "loading", or "ready" for the two
               \* values the code does not tell apart (interactive, complete)
  phase,       \* the script: "init" (not run), "waiting" (boot deferred), "booted"
  decl,        \* per element, its hx-* attributes and tag name
  bodyIndicator, \* the body's hx-indicator attribute
  controls,    \* the form controls, in tree order
  listeners,   \* addEventListener registrations, in order: [el, name]
  timers,      \* setInterval registrations: [el, interval, due, ticks]
  deferred,    \* once-listeners for DOMContentLoaded added by setupElement
  wired,       \* per element, the descriptors setupElement acted on, in order
  now,         \* the clock, in milliseconds since the script ran
  attached,    \* the nodes that are in the live tree
  inner,       \* per node, its content (innerHTML)
  outer,       \* per node, the markup that took its place in the tree
  classes,     \* the nodes carrying the class htmx-request
  firings,     \* the requestFor calls that reached fetch, in start order
  fetches,     \* the requests issued: [f, url]
  events,      \* the htmx:afterRequest events dispatched: detail.requestConfig
  trace,       \* what each firing did, in order: [f, step]
  calls,       \* how many times requestFor was called
  rejected,    \* the firings whose promise was rejected (an error escaped)
  defaults,    \* the events a listener handled: [el, name, prevented, at]
  aborted      \* the calls of requestFor that threw before the fetch:
               \* [el, origin, stage]

vars == <<readyState, phase, decl, bodyIndicator, controls, listeners, timers,
          deferred, wired, now, attached, inner, outer, classes, firings, fetches,
          events, trace, calls, rejected, defaults, aborted>>

\* What a swap can change.
dom == <<attached, inner, outer>>

\* ------------------------------------------------------- parameter collector

Letters ==
  {"a", "b", "c", "d", "e", "f", "g", "h", "i", "j", "k", "l", "m", "n", "o",
   "p", "q", "r", "s", "t", "u", "v", "w", "x", "y", "z"}

\* URLSearchParams.toString() for one character (application/
\* x-www-form-urlencoded): letters, digits and *-._ stay, a space becomes
\* "+", anything else is percent-encoded.
EncodeChar(c) ==
  CASE c \in Digits \cup Letters \cup {"*", "-", ".", "_"} -> <<c>>
    [] c = " " -> <<"+">>
    [] c = "&" -> <<"%", "2", "6">>
    [] c = "=" -> <<"%", "3", "D">>
    [] c = "?" -> <<"%", "3", "F">>
    [] c = "/" -> <<"%", "2", "F">>
    [] c = "+" -> <<"%", "2", "B">>
    [] c = "%" -> <<"%", "2", "5">>

RECURSIVE Encode(_)
Encode(s) == IF s = <<>> THEN <<>> ELSE EncodeChar(Head(s)) \o Encode(Tail(s))

\* params.toString(): name=value pairs joined by "&".
RECURSIVE ParamsToString(_)
ParamsToString(params) ==
  IF params = <<>> THEN <<>>
  ELSE Encode(Head(params).name) \o <<"=">> \o Encode(Head(params).value)
       \o (IF Tail(params) = <<>> THEN <<>>
           ELSE <<"&">> \o ParamsToString(Tail(params)))

\* The controls are the content the form started with: they are in the
\* document while the form is in the tree and no swap has set its content.
ControlsInDocument == "form" \in attached /\ inner["form"] = <<"initial">>

\* document.querySelectorAll(selector) over the form controls: the indices
\* of the controls in the document that match, in tree order.
RECURSIVE MatchingControls(_, _)
MatchingControls(selector, i) ==
  IF i > Len(controls) THEN <<>>
  ELSE (IF ControlsInDocument /\ selector \in controls[i].matches
        THEN <<i>> ELSE <<>>)
       \o MatchingControls(selector, i + 1)

\* Mutant of ParamOf: a checkbox or radio button is sent checked or not.
ParamOfAnyCheckState(c) ==
  IF c.disabled THEN <<>>
  ELSE IF ~Truthy(c.name) THEN <<>>
  ELSE <<[name |-> c.name, value |-> IF c.value = NoAttr THEN <<>> ELSE c.value]>>

\* Mutant of ParamOf: the collector reads the value and checked attributes,
\* which are what the controls had when the page was scanned.
ParamOfAttributes(c) ==
  IF c.disabled THEN <<>>
  ELSE IF ~Truthy(c.name) THEN <<>>
  ELSE IF c.type \in {"checkbox", "radio"} /\ ~c.defaultChecked THEN <<>>
  ELSE <<[name |-> c.name,
          value |-> IF c.defaultValue = NoAttr THEN <<>> ELSE c.defaultValue]>>

\* The forEach body of collectParams for one control: the entries it appends.
ParamOf(c) ==
  IF c.disabled THEN <<>>
  ELSE IF ~Truthy(c.name) THEN <<>>
  ELSE IF c.type \in {"checkbox", "radio"} /\ ~c.checked THEN <<>>
  ELSE <<[name |-> c.name, value |-> IF c.value = NoAttr THEN <<>> ELSE c.value]>>

RECURSIVE ParamsOf(_)
ParamsOf(idx) ==
  IF idx = <<>> THEN <<>>
  ELSE ParamOf(controls[Head(idx)]) \o ParamsOf(Tail(idx))

\* Mutant of collectParams: an entry replaces the earlier entries of its name.
collectParamsLastWins(selector) ==
  IF ~TruthyAttr(selector) THEN <<>>
  ELSE LET ps == ParamsOf(MatchingControls(selector, 1))
           keep == SelectSeq([k \in 1..Len(ps) |-> k],
                             LAMBDA k : \A l \in (k + 1)..Len(ps) :
                                          ps[l].name # ps[k].name)
       IN [j \in 1..Len(keep) |-> ps[keep[j]]]

collectParams(selector) ==
  IF ~TruthyAttr(selector) THEN <<>>
  ELSE ParamsOf(MatchingControls(selector, 1))

\* ------------------------------------------------ target, swap and indicator

\* A selector querySelector and querySelectorAll throw a SyntaxError for.
InvalidSelectors == {"!!"}

\* document.querySelector for an id selector: the attached node of that id.
QuerySelector(selector) ==
  IF \E n \in attached : "#" \o n = selector
  THEN CHOOSE n \in attached : "#" \o n = selector
  ELSE Null

\* Mutant of resolveTarget: a selector that matches nothing gives the element.
resolveTargetOrSelf(el) ==
  IF TruthyAttr(decl[el].target) /\ QuerySelector(decl[el].target) # Null
  THEN QuerySelector(decl[el].target)
  ELSE el

resolveTarget(el) ==
  IF TruthyAttr(decl[el].target) THEN QuerySelector(decl[el].target) ELSE el

\* Markup that holds an element with a request declaration: the element e2,
\* when the tree does not hold it yet.
LateMarkup == <<"<button id=\"e2\" hx-get=\"/x\">go</button>">>

\* The elements the parser makes of markup.
ElementsIn(html) ==
  IF \E i \in 1..Len(html) : html[i] = LateMarkup[1] THEN {"e2"} ELSE {}

\* The nodes below node n in tree D: those the page started with there, and
\* the elements that came with markup set as the content of n or of a node
\* below it, or put in the place of a node below it.
Below(D, n) ==
  Descendants(n)
    \cup ElementsIn(D.inner[n])
    \cup UNION {IF x \in D.attached THEN ElementsIn(D.inner[x])
                ELSE ElementsIn(D.outer[x]) : x \in Descendants(n)}

\* Mutant of applySwap: a strategy that is neither innerHTML nor outerHTML
\* is not carried out.
applySwapKnownOnly(D, target, swap, html) ==
  IF target = Null THEN [dom |-> D, threw |-> FALSE]
  ELSE IF swap = "outerHTML"
  THEN IF target = "root" THEN [dom |-> D, threw |-> TRUE]
       ELSE IF target \in D.attached
       THEN [dom |-> [D EXCEPT !.attached = (@ \ ({target} \cup Below(D, target)))
                                             \cup ElementsIn(html),
                               !.outer[target] = html],
             threw |-> FALSE]
       ELSE [dom |-> D, threw |-> FALSE]
  ELSE IF swap = "innerHTML"
  THEN [dom |-> [D EXCEPT !.attached = IF target \in D.attached
                                       THEN (@ \ Below(D, target))
                                              \cup ElementsIn(html)
                                       ELSE @,
                          !.inner[target] = html],
        threw |-> FALSE]
  ELSE [dom |-> D, threw |-> FALSE]

\* Mutant of applySwap: the markup is added after the content it should replace.
applySwapAppends(D, target, swap, html) ==
  IF target = Null THEN [dom |-> D, threw |-> FALSE]
  ELSE IF swap = "outerHTML"
  THEN IF target = "root" THEN [dom |-> D, threw |-> TRUE]
       ELSE IF target \in D.attached
       THEN [dom |-> [D EXCEPT !.attached = (@ \ ({target} \cup Below(D, target)))
                                             \cup ElementsIn(html),
                               !.outer[target] = html],
             threw |-> FALSE]
       ELSE [dom |-> D, threw |-> FALSE]
  ELSE [dom |-> [D EXCEPT !.attached = IF target \in D.attached
                                       THEN (@ \ Below(D, target))
                                              \cup ElementsIn(html)
                                       ELSE @,
                          !.inner[target] = @ \o html],
        threw |-> FALSE]

\* Mutant of applySwap: outerHTML set on a node that has left the tree goes
\* to the place the node had.
applySwapIntoPlace(D, target, swap, html) ==
  IF target = Null THEN [dom |-> D, threw |-> FALSE]
  ELSE IF swap = "outerHTML"
  THEN IF target = "root" THEN [dom |-> D, threw |-> TRUE]
       ELSE IF target \in D.attached
       THEN [dom |-> [D EXCEPT !.attached = (@ \ ({target} \cup Below(D, target)))
                                             \cup ElementsIn(html),
                               !.outer[target] = html],
             threw |-> FALSE]
       ELSE [dom |-> [D EXCEPT !.outer[target] = html], threw |-> FALSE]
  ELSE [dom |-> [D EXCEPT !.attached = IF target \in D.attached
                                       THEN (@ \ Below(D, target))
                                              \cup ElementsIn(html)
                                       ELSE @,
                          !.inner[target] = html],
        threw |-> FALSE]

\* applySwap on the tree D = [attached, inner, outer]: the tree after it, and
\* whether it threw.  Setting innerHTML replaces what is below the node by
\* what the markup holds, in the tree when the node is in the tree.
\* Setting outerHTML takes the node, with what is below it, out of the tree
\* and puts the markup in its place; on a node that is not in the tree it
\* changes nothing that shows; on the document element, whose parent is the
\* document, it throws.
applySwap(D, target, swap, html) ==
  IF target = Null THEN [dom |-> D, threw |-> FALSE]
  ELSE IF swap = "outerHTML"
  THEN IF target = "root" THEN [dom |-> D, threw |-> TRUE]
       ELSE IF target \in D.attached
       THEN [dom |-> [D EXCEPT !.attached = (@ \ ({target} \cup Below(D, target)))
                                             \cup ElementsIn(html),
                               !.outer[target] = html],
             threw |-> FALSE]
       ELSE [dom |-> D, threw |-> FALSE]
  ELSE [dom |-> [D EXCEPT !.attached = IF target \in D.attached
                                       THEN (@ \ Below(D, target))
                                              \cup ElementsIn(html)
                                       ELSE @,
                          !.inner[target] = html],
        threw |-> FALSE]

\* error.message of the exception the outerHTML setter throws.
DomErrorMessage == <<"NoModificationAllowedError">>

\* resolveIndicator: document.body is the body the page started with while
\* that is in the tree; a body that took its place has no hx-indicator.
resolveIndicator ==
  IF "body" \notin attached \/ ~TruthyAttr(bodyIndicator) THEN Null
  ELSE QuerySelector(bodyIndicator)

\* emitAfterRequest: the event appended to those the body has dispatched.
emitAfterRequest(ev, verb, path) ==
  Append(ev, [type |-> "htmx:afterRequest",
              detail |-> [requestConfig |-> [verb |-> verb, path |-> path]]])

\* `<div class="warning">${text}</div>`
Warning(text) == <<"<div class=\"warning\">">> \o text \o <<"</div>">>

\* ------------------------------------------------------------ the pipeline

\* The part of the state requestFor and setupElement work on, as one record.
Cur ==
  [firings |-> firings, classes |-> classes, fetches |-> fetches,
   trace |-> trace, calls |-> calls, listeners |-> listeners,
   timers |-> timers, deferred |-> deferred, wired |-> wired,
   defaults |-> defaults, aborted |-> aborted]

Step(f, name) == [f |-> f, step |-> name]

\* How a request can end: a success response, a non-success response, or no
\* response at all (fetch or response.text() rejects).
OkOutcome(body) ==
  [kind |-> "ok", text |-> body, statusText |-> <<"OK">>, message |-> <<>>]
HttpOutcome(status, body) ==
  [kind |-> "http", text |-> body, statusText |-> status, message |-> <<>>]
NetworkOutcome(msg) ==
  [kind |-> "network", text |-> <<>>, statusText |-> <<>>, message |-> msg]

Bodies == {<<"ok">>, <<"<b>hi</b>">>}
Outcomes ==
  {OkOutcome(b) : b \in Bodies}
    \cup {HttpOutcome(<<"Not Found">>, b) : b \in {<<>>, <<"gone">>}}
    \cup {NetworkOutcome(<<"Failed to fetch">>)}
\* The outcome field of a firing whose request has not ended.
NoOutcome ==
  [kind |-> "none", text |-> <<>>, statusText |-> <<>>, message |-> <<>>]

\* Mutant of FinalUrl: the parameters always go behind a "?".
FinalUrlQuestionMark(url, params) ==
  LET query == ParamsToString(params)
  IN IF query # <<>> THEN url \o <<"?">> \o query ELSE url

\* The path requested: the declared one, with the parameters behind a "?",
\* or behind a "&" when the declared path has a "?" in it.
FinalUrl(url, params) ==
  LET query == ParamsToString(params)
      joiner == IF Includes(url, "?") THEN "&" ELSE "?"
  IN IF query # <<>> THEN url \o <<joiner>> \o query ELSE url

\* requestFor from its second statement to its first await, for a path that is
\* not empty: the parameters, the target, the swap strategy, the final path,
\* the indicator, the fetch.
issueRequest(S, el, origin) ==
  LET url == decl[el].get
      params == collectParams(decl[el].include)
      target == resolveTarget(el)
      swap == IF TruthyAttr(decl[el].swap) THEN decl[el].swap ELSE "innerHTML"
      finalUrl == FinalUrl(url, params)
      indicator == resolveIndicator
      f == Len(S.firings) + 1
  IN [S EXCEPT
        !.firings = Append(@, [el |-> el, origin |-> origin, url |-> finalUrl,
                               params |-> params, target |-> target,
                               swap |-> swap, indicator |-> indicator,
                               state |-> "pending", response |-> NoOutcome,
                               outcome |-> NoOutcome,
                               html |-> <<>>, live |-> FALSE,
                               elLive |-> TRUE,
                               controlsAt |-> controls,
                               controlsIn |-> ControlsInDocument,
                               fetchAt |-> Len(S.trace) + 4,
                               doneAt |-> 0]),
        !.classes = IF indicator = Null THEN @ ELSE @ \cup {indicator},
        !.fetches = Append(@, [f |-> f, url |-> finalUrl]),
        !.trace = @ \o <<Step(f, "collect"), Step(f, "resolve"),
                         Step(f, "indicatorOn"), Step(f, "fetch")>>]

\* The statement of requestFor that throws before the fetch, for element el:
\* collectParams, resolveTarget or resolveIndicator when the selector it
\* hands to the document is not valid; "none" when none does.
ThrowsAt(el) ==
  IF TruthyAttr(decl[el].include) /\ decl[el].include \in InvalidSelectors
  THEN "collect"
  ELSE IF TruthyAttr(decl[el].target) /\ decl[el].target \in InvalidSelectors
  THEN "resolve"
  ELSE IF /\ "body" \in attached
          /\ TruthyAttr(bodyIndicator)
          /\ bodyIndicator \in InvalidSelectors
  THEN "indicator"
  ELSE "none"

\* What requestFor throws before its first await rejects the promise it returns:
\* the call ends there and its caller goes on.
abort(S, el, origin) ==
  [S EXCEPT !.aborted = Append(@, [el |-> el, origin |-> origin,
                                   stage |-> ThrowsAt(el)])]

\* Mutant of requestFor: a call is dropped while a request of the same
\* element is in flight.
requestForWhenIdle(S, el, origin) ==
  LET S0 == [S EXCEPT !.calls = @ + 1]
  IN IF ~Truthy(decl[el].get) THEN S0
     ELSE IF ThrowsAt(el) # "none" THEN abort(S0, el, origin)
     ELSE IF \E g \in 1..Len(S.firings) :
               S.firings[g].el = el /\ S.firings[g].state # "done"
     THEN S0
     ELSE issueRequest(S0, el, origin)

\* Mutant of requestFor: the path is not tested, a call without one goes on
\* with the empty path.
requestForAnyPath(S, el, origin) ==
  LET S0 == [S EXCEPT !.calls = @ + 1]
  IN IF ThrowsAt(el) # "none" THEN abort(S0, el, origin)
     ELSE issueRequest(S0, el, origin)

\* requestFor up to its first await: a call with no path returns at once, and a
\* call whose selectors the document rejects ends with the exception.
requestFor(S, el, origin) ==
  LET S0 == [S EXCEPT !.calls = @ + 1]
  IN IF ~Truthy(decl[el].get) THEN S0
     ELSE IF ThrowsAt(el) # "none" THEN abort(S0, el, origin)
     ELSE issueRequest(S0, el, origin)

\* Mutant of SwapHtml: the status text is preferred to the response body.
SwapHtmlStatusFirst(out) ==
  CASE out.kind = "ok" -> out.text
    [] out.kind = "http" ->
         Warning(IF out.statusText # <<>> THEN out.statusText ELSE out.text)
    [] out.kind = "network" -> Warning(out.message)

\* The markup handed to applySwap in each branch of the try statement.
SwapHtml(out) ==
  CASE out.kind = "ok" -> out.text
    [] out.kind = "http" ->
         Warning(IF out.text # <<>> THEN out.text ELSE out.statusText)
    [] out.kind = "network" -> Warning(out.message)

\* Mutant of Finalizer: the event carries the declared path.
FinalizerDeclaredPath(S, f) ==
  LET fr == firings[f]
  IN [S EXCEPT
        !.classes = IF fr.indicator = Null THEN @ ELSE @ \ {fr.indicator},
        !.events = emitAfterRequest(@, "get", decl[fr.el].get),
        !.trace = @ \o <<Step(f, "indicatorOff"), Step(f, "notify")>>]

\* Mutant of Finalizer: the event goes out before the class is taken off.
FinalizerNotifiesFirst(S, f) ==
  LET fr == firings[f]
  IN [S EXCEPT
        !.classes = IF fr.indicator = Null THEN @ ELSE @ \ {fr.indicator},
        !.events = emitAfterRequest(@, "get", fr.url),
        !.trace = @ \o <<Step(f, "notify"), Step(f, "indicatorOff")>>]

\* Mutant of Finalizer: the indicator is counted, and loses the class when
\* the last firing in flight that uses it ends.
FinalizerCounts(S, f) ==
  LET fr == firings[f]
      others == \E g \in 1..Len(firings) :
                  /\ g # f
                  /\ firings[g].state # "done"
                  /\ firings[g].indicator = fr.indicator
  IN [S EXCEPT
        !.classes = IF fr.indicator = Null \/ others THEN @
                    ELSE @ \ {fr.indicator},
        !.events = emitAfterRequest(@, "get", fr.url),
        !.trace = @ \o <<Step(f, "indicatorOff"), Step(f, "notify")>>]

\* Mutant of Finalizer: the class is never taken off the indicator.
FinalizerKeepsClass(S, f) ==
  LET fr == firings[f]
  IN [S EXCEPT
        !.events = emitAfterRequest(@, "get", fr.url),
        !.trace = @ \o <<Step(f, "indicatorOff"), Step(f, "notify")>>]

\* The finally block: the indicator loses the class, then the event goes out.
Finalizer(S, f) ==
  LET fr == firings[f]
  IN [S EXCEPT
        !.classes = IF fr.indicator = Null THEN @ ELSE @ \ {fr.indicator},
        !.events = emitAfterRequest(@, "get", fr.url),
        !.trace = @ \o <<Step(f, "indicatorOff"), Step(f, "notify")>>]

\* The try block up to its end or its first exception: the tree after it,
\* whether it threw and with what message, and how often it called applySwap.
TryBlock(D, fr, out) ==
  IF out.kind = "network"
  THEN [dom |-> D, threw |-> TRUE, message |-> out.message, swaps |-> 0]
  ELSE LET r == applySwap(D, fr.target, fr.swap, SwapHtml(out))
       IN [dom |-> r.dom, threw |-> r.threw, message |-> DomErrorMessage,
           swaps |-> 1]

\* Mutant of TryCatch: there is no catch block, what the try block throws
\* escapes requestFor.
TryWithoutCatch(D, fr, out) ==
  LET t == TryBlock(D, fr, out)
  IN [dom |-> t.dom, escaped |-> t.threw, swaps |-> t.swaps,
      html |-> SwapHtml(out)]

\* The try and catch blocks: the catch block runs when the try block threw,
\* and what it throws escapes requestFor.
TryCatch(D, fr, out) ==
  LET t == TryBlock(D, fr, out)
  IN IF ~t.threw
     THEN [dom |-> t.dom, escaped |-> FALSE, swaps |-> t.swaps,
           html |-> SwapHtml(out)]
     ELSE LET c == applySwap(t.dom, fr.target, fr.swap, Warning(t.message))
          IN [dom |-> c.dom, escaped |-> c.threw, swaps |-> t.swaps + 1,
              html |-> Warning(t.message)]

\* Mutant of Resume: the finalizer is written per branch and the early
\* return of the non-success branch leaves without it.
ResumeReturnSkipsFinalizer(S, f, out) ==
  LET r == TryCatch(S.dom, firings[f], out)
      S1 == [S EXCEPT !.dom = r.dom,
                      !.trace = @ \o [i \in 1..r.swaps |-> Step(f, "swap")],
                      !.rejected = IF r.escaped THEN @ \cup {f} ELSE @]
  IN IF out.kind = "http" THEN S1 ELSE Finalizer(S1, f)

\* Mutant of Resume: a firing whose element has left the tree is dropped.
ResumeCancelsDetached(S, f, out) ==
  LET r == TryCatch(S.dom, firings[f], out)
      S1 == [S EXCEPT !.dom = r.dom,
                      !.trace = @ \o [i \in 1..r.swaps |-> Step(f, "swap")],
                      !.rejected = IF r.escaped THEN @ \cup {f} ELSE @]
  IN IF firings[f].el \notin S.dom.attached THEN S ELSE Finalizer(S1, f)

\* Mutant of Resume: a response is dropped when a later firing of the same
\* element has started since.
ResumeDropsStale(S, f, out) ==
  LET r == TryCatch(S.dom, firings[f], out)
      S1 == [S EXCEPT !.dom = r.dom,
                      !.trace = @ \o [i \in 1..r.swaps |-> Step(f, "swap")],
                      !.rejected = IF r.escaped THEN @ \cup {f} ELSE @]
  IN IF \E g \in (f + 1)..Len(firings) : firings[g].el = firings[f].el
     THEN Finalizer(S, f)
     ELSE Finalizer(S1, f)

\* Mutant of Resume: a request that failed is issued once more.
ResumeRetriesFailure(S, f, out) ==
  LET r == TryCatch(S.dom, firings[f], out)
      S1 == [S EXCEPT !.dom = r.dom,
                      !.trace = @ \o [i \in 1..r.swaps |-> Step(f, "swap")]
                                  \o (IF out.kind = "ok" THEN <<>>
                                      ELSE <<Step(f, "fetch")>>),
                      !.rejected = IF r.escaped THEN @ \cup {f} ELSE @]
  IN Finalizer(S1, f)

\* requestFor after its last await, for firing f whose request ended as out: the
\* try and catch blocks, then the finally block; an exception that escapes
\* the catch block rejects the promise requestFor returned.
Resume(S, f, out) ==
  LET r == TryCatch(S.dom, firings[f], out)
      S1 == [S EXCEPT !.dom = r.dom,
                      !.trace = @ \o [i \in 1..r.swaps |-> Step(f, "swap")],
                      !.rejected = IF r.escaped THEN @ \cup {f} ELSE @]
  IN Finalizer(S1, f)

\* Bookkeeping for firing f when its request ends as out: the outcome, the
\* markup last handed to applySwap, whether its target and its element were
\* then nodes of the tree, and where in the trace requestFor returned.
Settled(f, out) ==
  [firings EXCEPT ![f].state = "done", ![f].outcome = out,
                  ![f].html = TryCatch([attached |-> attached, inner |-> inner,
                                        outer |-> outer], firings[f], out).html,
                  ![f].live = firings[f].target \in attached,
                  ![f].elLive = firings[f].el \in attached,
                  ![f].doneAt =
                    Len(trace) + 2
                      + TryCatch([attached |-> attached, inner |-> inner,
                                  outer |-> outer], firings[f], out).swaps]

\* ------------------------------------------------------------------ binder

\* Mutant of registerOne: a ready trigger met when the document is no longer
\* loading fires now and once more.
registerOneReadyAgain(S, el, d, rs) ==
  LET W == [S EXCEPT !.wired[el] = Append(@, d)]
  IN CASE d.kind = "ready" ->
            IF rs = "loading" THEN [W EXCEPT !.deferred = Append(@, el)]
            ELSE requestFor(requestFor(W, el, "ready"), el, "ready")
       [] d.kind = "interval" ->
            [W EXCEPT !.timers = Append(@, [el |-> el, interval |-> d.periodMs,
                                            due |-> now + d.periodMs,
                                            ticks |-> 0])]
       [] d.kind = "event" ->
            [W EXCEPT !.listeners = Append(@, [el |-> el, name |-> d.name])]

\* The forEach body of setupElement for one trigger's descriptor; rs is
\* document.readyState when it runs.
registerOne(S, el, d, rs) ==
  LET W == [S EXCEPT !.wired[el] = Append(@, d)]
  IN CASE d.kind = "ready" ->
            IF rs = "loading" THEN [W EXCEPT !.deferred = Append(@, el)]
            ELSE requestFor(W, el, "ready")
       [] d.kind = "interval" ->
            [W EXCEPT !.timers = Append(@, [el |-> el, interval |-> d.periodMs,
                                            due |-> now + d.periodMs,
                                            ticks |-> 0])]
       [] d.kind = "event" ->
            [W EXCEPT !.listeners = Append(@, [el |-> el, name |-> d.name])]

RECURSIVE register(_, _, _, _)
register(S, el, ds, rs) ==
  IF ds = <<>> THEN S
  ELSE register(registerOne(S, el, Head(ds), rs), el, Tail(ds), rs)

setupElement(S, el, rs) == register(S, el, Descriptors(decl[el].trigger), rs)

\* Mutant of bootFrom: what requestFor throws is thrown to boot, which stops
\* at the element that was being set up.
RECURSIVE bootFromUntilThrow(_, _, _)
bootFromUntilThrow(S, i, rs) ==
  IF i > Len(Elems) THEN S
  ELSE LET T == IF decl[Elems[i]].get # NoAttr /\ Elems[i] \in attached
                THEN setupElement(S, Elems[i], rs) ELSE S
       IN IF Len(T.aborted) > Len(S.aborted) THEN T
          ELSE bootFromUntilThrow(T, i + 1, rs)

\* Mutant of bootFrom: every element that has an hx-get attribute is set up,
\* in the tree or not.
RECURSIVE bootFromDeclared(_, _, _)
bootFromDeclared(S, i, rs) ==
  IF i > Len(Elems) THEN S
  ELSE bootFromDeclared(IF decl[Elems[i]].get # NoAttr
                        THEN setupElement(S, Elems[i], rs) ELSE S,
                        i + 1, rs)

\* boot: setupElement for every element that has an hx-get attribute.
RECURSIVE bootFrom(_, _, _)
bootFrom(S, i, rs) ==
  IF i > Len(Elems) THEN S
  ELSE bootFrom(IF decl[Elems[i]].get # NoAttr /\ Elems[i] \in attached
                THEN setupElement(S, Elems[i], rs) ELSE S,
                i + 1, rs)

boot(S, rs) == bootFrom(S, 1, rs)

\* Mutant of Suppresses: the default is suppressed for every event on an
\* element whose tag name is A.
SuppressesAnyEvent(el, name) == decl[el].tag = "A"

\* The test of the listener: it calls event.preventDefault() for a click on
\* an element whose tag name is A.
Suppresses(el, name) == name = click /\ decl[el].tag = "A"

\* The listener up to its call of requestFor: what it did to the event.
handleEvent(S, el, name) ==
  [S EXCEPT !.defaults = Append(@, [el |-> el, name |-> name,
                                    prevented |-> Suppresses(el, name),
                                    at |-> Len(S.trace)])]

\* The listeners of one event on one element, run in registration order.
RECURSIVE dispatch(_, _, _, _)
dispatch(S, el, name, i) ==
  IF i > Len(listeners) THEN S
  ELSE dispatch(IF listeners[i] = [el |-> el, name |-> name]
                THEN requestFor(handleEvent(S, el, name), el, "event") ELSE S,
                el, name, i + 1)

\* ----------------------------------------------------------------- actions

Install(S) ==
  /\ firings' = S.firings
  /\ classes' = S.classes
  /\ fetches' = S.fetches
  /\ trace' = S.trace
  /\ calls' = S.calls
  /\ listeners' = S.listeners
  /\ timers' = S.timers
  /\ deferred' = S.deferred
  /\ wired' = S.wired
  /\ defaults' = S.defaults
  /\ aborted' = S.aborted

page == <<decl, bodyIndicator, controls>>

\* The script runs: boot now, or when the document has been parsed.
Script ==
  /\ phase = "init"
  /\ IF readyState = "loading"
     THEN /\ phase' = "waiting"
          /\ UNCHANGED <<firings, classes, fetches, trace, calls, listeners,
                         timers, deferred, wired, defaults, aborted>>
     ELSE /\ phase' = "booted"
          /\ Install(boot(Cur, readyState))
  /\ UNCHANGED <<readyState, page, now, dom, events, rejected>>

\* DOMContentLoaded: the document becomes interactive and the deferred boot runs.
DOMContentLoaded ==
  /\ phase = "waiting"
  /\ readyState = "loading"
  /\ readyState' = "ready"
  /\ phase' = "booted"
  /\ Install(boot(Cur, "ready"))
  /\ UNCHANGED <<page, now, dom, events, rejected>>

\* The event name reaches element el, which is in the tree: its listeners run.
Activate(el, name) ==
  /\ phase = "booted"
  /\ el \in attached
  /\ \E i \in 1..Len(listeners) : listeners[i] = [el |-> el, name |-> name]
  /\ dispatch(Cur, el, name, 1).calls <= MaxFirings
  /\ Install(dispatch(Cur, el, name, 1))
  /\ UNCHANGED <<readyState, phase, page, now, dom, events, rejected>>

\* Mutant of TimerFire: the timer of an element that has left the tree is
\* cleared and ticks no more.
TimerFireWhileAttached(t) ==
  /\ t \in 1..Len(timers)
  /\ \A u \in 1..Len(timers) : timers[t].due <= timers[u].due
  /\ calls < MaxFirings
  /\ timers[t].el \in attached
  /\ now' = timers[t].due
  /\ Install([requestFor(Cur, timers[t].el, "interval") EXCEPT
                !.timers[t].due = @ + timers[t].interval,
                !.timers[t].ticks = @ + 1])
  /\ UNCHANGED <<readyState, phase, page, dom, events, rejected>>

\* The earliest timer comes due: the clock is there and its callback runs.
TimerFire(t) ==
  /\ t \in 1..Len(timers)
  /\ \A u \in 1..Len(timers) : timers[t].due <= timers[u].due
  /\ calls < MaxFirings
  /\ now' = timers[t].due
  /\ Install([requestFor(Cur, timers[t].el, "interval") EXCEPT
                !.timers[t].due = @ + timers[t].interval,
                !.timers[t].ticks = @ + 1])
  /\ UNCHANGED <<readyState, phase, page, dom, events, rejected>>

\* What fetch resolves with when the request ends as out: the status of the
\* response, its body still to be read.
ResponseOf(out) == [out EXCEPT !.text = <<>>]

\* The response of firing f arrives: fetch resolves, requestFor calls
\* response.text() and waits for the body.
Respond(f, out) ==
  /\ f \in 1..Len(firings)
  /\ firings[f].state = "pending"
  /\ out.kind \in {"ok", "http"}
  /\ firings' = [firings EXCEPT ![f].state = "reading",
                                ![f].response = ResponseOf(out)]
  /\ UNCHANGED <<readyState, phase, page, listeners, timers, deferred, wired,
                 now, dom, classes, fetches, events, trace, calls, rejected,
                 defaults, aborted>>

\* The request of firing f ends as out and requestFor runs to its end: the
\* body of the response that arrived has been read, or fetch or the reading
\* of the body has failed.
Settle(f, out) ==
  /\ f \in 1..Len(firings)
  /\ \/ firings[f].state \in {"pending", "reading"} /\ out.kind = "network"
     \/ firings[f].state = "reading" /\ firings[f].response = ResponseOf(out)
  /\ LET S == Resume([dom |-> [attached |-> attached, inner |-> inner,
                               outer |-> outer],
                      classes |-> classes, events |-> events, trace |-> trace,
                      rejected |-> rejected],
                     f, out)
     IN /\ attached' = S.dom.attached
        /\ inner' = S.dom.inner
        /\ outer' = S.dom.outer
        /\ classes' = S.classes
        /\ events' = S.events
        /\ trace' = S.trace
        /\ rejected' = S.rejected
  /\ firings' = Settled(f, out)
  /\ UNCHANGED <<readyState, phase, page, listeners, timers, deferred, wired,
                 now, fetches, calls, defaults, aborted>>

\* ---------------------------------------------------------------- the pages

PathX == <<"/", "x">>
PathY == <<"/", "y", "?", "a", "=", "1">>

Every1s == <<"e", "v", "e", "r", "y", " ", "1", "s">>
LoadTwice == <<"l", "o", "a", "d", ",", "l", "o", "a", "d">>
ClickAndEvery == <<"c", "l", "i", "c", "k", ",", " ", "e", "v", "e", "r", "y", " ", "5", "0", "0", "m", "s">>

Button(trigger, target, swap) ==
  [get |-> PathX, trigger |-> trigger, target |-> target, swap |-> swap,
   include |-> None, tag |-> "BUTTON"]

\* An element without a request declaration.
Plain ==
  [get |-> NoAttr, trigger |-> NoAttr, target |-> None, swap |-> None,
   include |-> None, tag |-> "BUTTON"]

\* A form control: its name attribute, its type, its value and checked
\* attributes (defaultValue, defaultChecked) and the live properties the
\* user changes (value, checked), disabled, and the selectors it matches.
Control(type, name, value, checked, disabled) ==
  [name |-> name, type |-> type, value |-> value, defaultValue |-> value,
   checked |-> checked, defaultChecked |-> checked, disabled |-> disabled,
   matches |-> {"#form input"}]

TextControl(name, value) == Control("text", name, value, FALSE, FALSE)

Page(d1, d2, ind, ctl) ==
  [decl |-> [e \in ElemSet |-> IF e = "e1" THEN d1 ELSE d2],
   bodyIndicator |-> ind, controls |-> ctl]

\* One element bound to the default trigger, for every target and strategy:
\* itself, another node, no node, the body, the document element.
ClickPages ==
  {Page(Button(NoAttr, tg, sw), Plain, "#spinner", <<>>) :
     tg \in {None, "#out"}, sw \in {None, "outerHTML"}}
    \cup {Page(Button(NoAttr, "#missing", None), Plain, "#spinner", <<>>),
          Page(Button(NoAttr, "#out", "beforeend"), Plain, "#spinner", <<>>),
          Page(Button(NoAttr, "#body", None), Plain, "#spinner", <<>>),
          Page(Button(NoAttr, "#root", "outerHTML"), Plain, "#spinner", <<>>)}

\* One element bound to an interval alone.
IntervalPages ==
  {Page(Button(Every1s, "#out", sw), Plain, "#spinner", <<>>) :
     sw \in {None, "outerHTML"}}
    \cup {Page(Button(Every1s, None, "outerHTML"), Plain, "#spinner", <<>>),
          Page(Button(Every1s, "#missing", "outerHTML"), Plain, "#spinner", <<>>)}

\* A ready trigger, two of them on one element, a second bound element whose response replaces the
\* first, a page without an indicator, an empty path, and included controls.
OtherPages ==
  {Page(Button(load, "#out", None), Plain, "#spinner", <<>>),
   Page(Button(LoadTwice, "#out", None), Plain, "#spinner", <<>>),
   Page(Button(NoAttr, "#out", None), Button(load, "#e1", "outerHTML"),
        "#spinner", <<>>),
   Page(Button(NoAttr, "#out", None), Plain, None, <<>>),
   Page([Button(NoAttr, "#out", None) EXCEPT !.get = <<>>], Plain,
        "#spinner", <<>>),
   Page([Button(NoAttr, "#out", None) EXCEPT !.get = PathY,
                                             !.include = "#form input"],
        Plain, "#spinner", <<TextControl(<<"q">>, <<"a", " ", "b">>)>>)}

Pages == ClickPages \cup IntervalPages \cup OtherPages

\* The state before the script runs on page p, whose tree holds the nodes
\* tree.
InitOnTree(p, tree) ==
  /\ readyState \in {"loading", "ready"}
  /\ phase = "init"
  /\ decl = p.decl
  /\ bodyIndicator = p.bodyIndicator
  /\ controls = p.controls
  /\ listeners = <<>>
  /\ timers = <<>>
  /\ deferred = <<>>
  /\ wired = [e \in ElemSet |-> <<>>]
  /\ now = 0
  /\ attached = tree
  /\ inner = [n \in Nodes |-> <<"initial">>]
  /\ outer = [n \in Nodes |-> <<>>]
  /\ classes = {}
  /\ firings = <<>>
  /\ fetches = <<>>
  /\ events = <<>>
  /\ trace = <<>>
  /\ calls = 0
  /\ rejected = {}
  /\ defaults = <<>>
  /\ aborted = <<>>

\* The state before the script runs on page p, all its nodes in the tree.
InitOn(p) == InitOnTree(p, Nodes)

Init == \E p \in Pages : InitOn(p)

Next ==
  \/ Script
  \/ DOMContentLoaded
  \/ \E el \in ElemSet : \E i \in 1..Len(listeners) :
       Activate(el, listeners[i].name)
  \/ \E t \in 1..Len(timers) : TimerFire(t)
  \/ \E f \in 1..Len(firings) : \E out \in Outcomes : Respond(f, out)
  \/ \E f \in 1..Len(firings) : \E out \in Outcomes : Settle(f, out)

Spec == Init /\ [][Next]_vars

\* ------------------------------------------------------- the form controls

ValA == <<"a">>
ValB == <<"b">>
ValC == <<"c">>
ValD == <<"d">>
NameQ == <<"q">>
NameR == <<"r">>

\* What the user's next edit of a text control leaves in it.
AltValue(v) ==
  CASE v = ValA -> ValC [] v = ValC -> ValA
    [] v = ValB -> ValD [] v = ValD -> ValB
    [] OTHER -> v

\* The user changes control i, which is in the document and not disabled: a
\* checkbox or radio button changes its checked state, any other control its
\* value.  The attributes (defaultValue, defaultChecked) stay as they are.
Edit(i) ==
  /\ phase = "booted"
  /\ ControlsInDocument
  /\ i \in 1..Len(controls)
  /\ ~controls[i].disabled
  /\ IF controls[i].type \in {"checkbox", "radio"}
     THEN controls' = [controls EXCEPT ![i].checked = ~@]
     ELSE /\ AltValue(controls[i].value) # controls[i].value
          /\ controls' = [controls EXCEPT ![i].value = AltValue(@)]
  /\ UNCHANGED <<readyState, phase, decl, bodyIndicator, listeners, timers,
                 deferred, wired, now, dom, classes, firings, fetches, events,
                 trace, calls, rejected, defaults, aborted>>

\* The controls a page can have at one place in the tree, with value v: text
\* fields with and without a name, disabled or outside the selector, and
\* checkboxes and radio buttons, checked or not.
ControlsWith(v) ==
  {Control("text", NameQ, v, FALSE, FALSE),
   Control("text", NameQ, v, FALSE, TRUE),
   Control("text", NoAttr, v, FALSE, FALSE),
   Control("text", <<>>, v, FALSE, FALSE),
   [Control("text", NameQ, v, FALSE, FALSE) EXCEPT !.matches = {}],
   Control("checkbox", NameQ, v, FALSE, FALSE),
   Control("checkbox", NameQ, v, TRUE, FALSE),
   Control("checkbox", NameQ, v, TRUE, TRUE),
   Control("radio", NameQ, v, FALSE, FALSE),
   Control("radio", NameQ, v, TRUE, FALSE)}

\* The controls of a page, in tree order: none, one, or one followed by a
\* control of the same or of another name.
ControlLists ==
  {<<>>}
    \cup {<<c>> : c \in ControlsWith(ValA)}
    \cup {<<c, d>> : c \in ControlsWith(ValA),
                     d \in {Control("text", NameQ, ValB, FALSE, FALSE),
                            Control("text", NameR, ValB, FALSE, FALSE),
                            Control("checkbox", NameQ, ValB, FALSE, FALSE)}}

FormPage(path, include, ctl) ==
  Page([Button(NoAttr, "#out", None) EXCEPT !.get = path, !.include = include],
       Plain, "#spinner", ctl)

\* One element bound to the default trigger that includes the controls:
\* every list of controls, a path with and without a query, and an hx-include
\* attribute that is absent or empty.
FormPages ==
  {FormPage(PathX, "#form input", cs) : cs \in ControlLists}
    \cup {FormPage(PathY, "#form input", cs) :
            cs \in {<<>>, <<TextControl(NameQ, ValA)>>,
                    <<TextControl(NameQ, <<"a", " ", "b">>)>>,
                    <<TextControl(NameQ, ValA), TextControl(NameQ, ValB)>>}}
    \cup {FormPage(PathX, inc, <<TextControl(NameQ, ValA)>>) : inc \in {None, ""}}

\* An element that includes the controls and whose response takes them out
\* of the document: it is swapped into the form, into the place of the form,
\* or, for an element bound to an interval, into the body.
FormSwapPages ==
  {Page([Button(tr, tg, sw) EXCEPT !.include = "#form input"], Plain,
        "#spinner", <<TextControl(NameQ, ValA)>>) :
     tr \in {NoAttr}, tg \in {"#form"}, sw \in {None, "outerHTML"}}
    \cup {Page([Button(Every1s, "#body", None) EXCEPT !.include = "#form input"],
               Plain, "#spinner", <<TextControl(NameQ, ValA)>>)}

\* Node n is the form or holds it.
HoldsForm(n) == n = "form" \/ "form" \in Descendants(n)

\* How a request of these pages ends.
FormOutcomes == {OkOutcome(<<"ok">>), NetworkOutcome(<<"Failed to fetch">>)}

InitForm ==
  \E p \in FormPages \cup FormSwapPages : InitOn(p) /\ readyState = "ready"

NextForm ==
  \/ Script
  \/ \E el \in ElemSet : Activate(el, click)
  \/ \E i \in 1..Len(controls) : Edit(i)
  \/ \E t \in 1..Len(timers) : TimerFire(t)
  \/ \E f \in 1..Len(firings) : \E out \in FormOutcomes :
       HoldsForm(firings[f].target) /\ Respond(f, out)
  \/ \E f \in 1..Len(firings) : \E out \in FormOutcomes :
       HoldsForm(firings[f].target) /\ Settle(f, out)

\* The collector at work, up to the requests it leads to: the user edits the
\* controls of a page between the activations of its bound element.  The
\* requests whose response is swapped where the form is come to their end;
\* the others stay in flight, their swap into a node away from the form
\* changes nothing the collector reads.
SpecForm == InitForm /\ [][NextForm]_vars

DigitOf(d) == CHOOSE c \in Digits : DigitVal(c) = d

\* The decimal digits of a natural number.
RECURSIVE Decimal(_)
Decimal(n) ==
  IF n < 10 THEN <<DigitOf(n)>> ELSE Append(Decimal(n \div 10), DigitOf(n % 10))

\* Interval segments "every N", "every Nms" and "every Ns" for whole N, and
\* "every Ns" for N with a fraction of up to three digits.
Periods == {0, 1, 2, 30, 500, 1500}
Units == {<<>>, <<"m", "s">>, <<"s">>}
IntervalSpec(n, u) == everyPrefix \o Decimal(n) \o u
Fractions == {<<"5">>, <<"2", "5">>, <<"0", "0", "1">>, <<"0", "0", "5">>}
FractionSpec(n, fr) == everyPrefix \o Decimal(n) \o <<".">> \o fr \o <<"s">>
IntervalSpecs ==
  {IntervalSpec(n, u) : n \in Periods, u \in Units}
    \cup {FractionSpec(n, fr) : n \in {0, 1, 2}, fr \in Fractions}

\* ------------------------------------------------------ anchors and events

keyup == <<"k", "e", "y", "u", "p">>
ClickAndKeyup == <<"c", "l", "i", "c", "k", ",", "k", "e", "y", "u", "p">>

\* An element of the given tag name bound to the given trigger spec.
Tagged(tag, trigger) == [Button(trigger, "#out", None) EXCEPT !.tag = tag]

\* Anchors, an area and a button, bound to a click, to another event, and
\* to both.
AnchorPages ==
  {Page(Tagged("A", tr), Plain, "#spinner", <<>>) :
     tr \in {NoAttr, click, keyup, ClickAndKeyup}}
    \cup {Page(Tagged(tag, NoAttr), Plain, "#spinner", <<>>) :
            tag \in {"AREA", "BUTTON"}}

InitAnchor == \E p \in AnchorPages : InitOn(p)

NextAnchor ==
  \/ Script
  \/ DOMContentLoaded
  \/ \E el \in ElemSet : \E i \in 1..Len(listeners) :
       Activate(el, listeners[i].name)
  \/ \E f \in 1..Len(firings) : Respond(f, OkOutcome(<<"ok">>))
  \/ \E f \in 1..Len(firings) : Settle(f, OkOutcome(<<"ok">>))

\* The listeners at work on anchors and other elements.
SpecAnchor == InitAnchor /\ [][NextAnchor]_vars

\* Trigger specs: every text over Alphabet up to MaxLen characters, an
\* absent attribute, and samples of each kind of segment.
Alphabet == {",", " ", "\t", "x"}

ShortSpecs == UNION {[1..n -> Alphabet] : n \in 0..MaxLen}

SampleSpecs ==
  {NoAttr, click, load, Every1s, ClickAndEvery,
   <<"e", "v", "e", "r", "y", " ", "2", "s">>, <<"e", "v", "e", "r", "y", " ", "5", "0", "0", "m", "s">>, <<"e", "v", "e", "r", "y", " ", "a", "b", "c">>, <<"e", "v", "e", "r", "y", " ", "a", "b", "c", ",", " ", "c", "l", "i", "c", "k">>, <<"e", "v", "e", "r", "y", " ", "1", "x", ",", "e", "v", "e", "r", "y", " ", "1", "s">>,
   <<"e", "v", "e", "r", "y", " ", " ", "3">>, LoadTwice,
   <<"\t">> \o click, click \o <<",", "\n">> \o load,
   everyPrefix \o <<"\t", "1", "s">>, Every1s \o <<"\r", "\n">>,
   <<"\f">> \o everyPrefix \o <<"a", "b", "c">>, <<"e", "v", "e", "r", "y", " ", "1", ".", "5", "s">>, <<" ", "k", "e", "y", "u", "p", " ", ",", " ", ",", " ", "e", "v", "e", "r", "y", " ", "2", " ", "s">>}

\* Segments with one white space character before, behind or inside them.
WhiteSpaceSpecs ==
  UNION {{<<w>> \o click, click \o <<w>>, Every1s \o <<w>>,
          everyPrefix \o <<w, "1", "s">>, <<w>>} : w \in WhiteSpace}

ParsePages ==
  {Page(Button(tr, "#out", None), Plain, "#spinner", <<>>) :
     tr \in ShortSpecs \cup SampleSpecs \cup WhiteSpaceSpecs \cup IntervalSpecs}

InitParse == \E p \in ParsePages : InitOn(p)

NextParse == Script \/ DOMContentLoaded

\* The binder alone: the script and the boot it runs, over the trigger specs.
SpecParse == InitParse /\ [][NextParse]_vars

\* Pages for the firings that run to their end: a click that swaps into
\* another node, into the element's own place, into the place of the document
\* element, a timer whose element leaves the tree, and an element that the
\* response of another one replaces.
FairPages ==
  {Page(Button(NoAttr, "#out", None), Plain, "#spinner", <<>>),
   Page(Button(NoAttr, None, "outerHTML"), Plain, "#spinner", <<>>),
   Page(Button(NoAttr, "#root", "outerHTML"), Plain, "#spinner", <<>>),
   Page(Button(Every1s, None, "outerHTML"), Plain, "#spinner", <<>>),
   Page(Button(NoAttr, "#out", None), Button(load, "#e1", "outerHTML"),
        "#spinner", <<>>)}

InitFair == \E p \in FairPages : InitOn(p)

\* The network call of every firing settles, and the event loop then runs
\* the rest of requestFor.
FairSpec ==
  /\ InitFair
  /\ [][Next]_vars
  /\ \A f \in 1..MaxFirings : WF_vars(\E out \in Outcomes : Settle(f, out))

\* -------------------------------------------------------------- observations

FiringIds == 1..Len(firings)

Done(f) == firings[f].state = "done"
Pending(f) == firings[f].state \in {"pending", "reading"}

\* The steps of firing f, in the order they were taken.
StepsOf(f) == SelectSeq(trace, LAMBDA s : s.f = f)

CountStep(f, name) == Len(SelectSeq(trace, LAMBDA s : s = Step(f, name)))

\* Both requests were in flight at the same time (both have ended).
Overlap(a, b) ==
  /\ firings[a].fetchAt < firings[b].doneAt
  /\ firings[b].fetchAt < firings[a].doneAt

CompletesBefore(a, b) == firings[a].doneAt < firings[b].doneAt

\* No firing has completed after b.
IsLastCompleted(b) ==
  Done(b) /\ \A g \in FiringIds : firings[g].doneAt <= firings[b].doneAt

\* What the tree shows where node t is or was: the node's content, or the
\* markup that took the node's place.
Rendered(t) == IF t \in attached THEN inner[t] ELSE outer[t]

\* The swap of completed firing f could change the tree: its target was a
\* node of the tree, and not the document element under outerHTML.
TakesEffect(f) ==
  /\ firings[f].live
  /\ firings[f].swap = "outerHTML" => firings[f].target # "root"

\* Two firings of one element that overlapped, a completing first, b last of all.
Race(a, b) ==
  /\ a # b /\ Done(a) /\ Done(b)
  /\ firings[a].el = firings[b].el
  /\ Overlap(a, b)
  /\ CompletesBefore(a, b)
  /\ IsLastCompleted(b)

\* -------------------------------------------------------------------- claims

\* C1: every firing that issued a request runs the finalizer exactly once,
\* whatever the outcome: one indicator deactivation, then one notification,
\* as its last two steps; none before the request has ended.
C1_FinalizerExactlyOnce ==
  /\ \A f \in FiringIds :
       LET st == StepsOf(f)
       IN /\ Len(SelectSeq(st, LAMBDA s : s.step = "indicatorOff"))
               = (IF Done(f) THEN 1 ELSE 0)
          /\ Len(SelectSeq(st, LAMBDA s : s.step = "notify"))
               = (IF Done(f) THEN 1 ELSE 0)
          /\ Done(f) => /\ st[Len(st) - 1].step = "indicatorOff"
                        /\ st[Len(st)].step = "notify"
                        /\ firings[f].indicator \notin classes
                           \/ \E g \in FiringIds : Pending(g)
  /\ Len(events) = Cardinality({f \in FiringIds : Done(f)})

\* Three firings have completed, one on each outcome branch.
C1_Witness ==
  \E a, b, c \in FiringIds :
    /\ Done(a) /\ Done(b) /\ Done(c)
    /\ firings[a].outcome.kind = "ok"
    /\ firings[b].outcome.kind = "http"
    /\ firings[c].outcome.kind = "network"

\* C2 as stated: after a race the target shows the response of the firing
\* that completed last, for every swap strategy.
C2_LastToCompleteWins ==
  \A a, b \in FiringIds :
    (Race(a, b) /\ firings[b].target # Null)
      => Rendered(firings[b].target) = firings[b].html

\* C2 amended: after a race the target's content is the last response when
\* the strategy is not replace-node and the target is in the tree; under
\* replace-node the first swap takes the target (a node below the document
\* element) out of the tree, the second acts on the detached node, and the
\* first response stays in its place.
C2_LastWinsUnlessNodeReplaced ==
  \A a, b \in FiringIds :
    Race(a, b) =>
      /\ (firings[b].swap # "outerHTML" /\ firings[b].live)
           => /\ firings[b].target \in attached
              /\ inner[firings[b].target] = firings[b].html
      /\ (firings[a].swap = "outerHTML" /\ TakesEffect(a)
          /\ firings[b].target = firings[a].target)
           => /\ ~firings[b].live
              /\ firings[a].target \notin attached
              /\ outer[firings[a].target] = firings[a].html

\* A race under replace-contents whose two responses differ.
C2_Witness ==
  \E a, b \in FiringIds :
    /\ Race(a, b)
    /\ firings[b].swap = "innerHTML"
    /\ firings[b].live
    /\ firings[a].html # firings[b].html

\* C3: when no firing is in flight the indicator is not active; every
\* firing that failed on the network made one error rendering of its own,
\* and the last one stands in the tree where its target is.
C3_IndicatorIdleWhenSettled ==
  (\A f \in FiringIds : Done(f)) =>
    /\ classes = {}
    /\ \A f \in FiringIds :
         firings[f].outcome.kind = "network" =>
           /\ CountStep(f, "swap") = 1
           /\ firings[f].html = Warning(firings[f].outcome.message)
           /\ (IsLastCompleted(f) /\ TakesEffect(f))
                => Rendered(firings[f].target) = firings[f].html

\* Two consecutive firings of one element both failed on the network, with
\* an indicator configured, and nothing is in flight.
C3_Witness ==
  \E a, b \in FiringIds :
    /\ firings[a].el = firings[b].el
    /\ Done(a) /\ Done(b)
    /\ \A f \in FiringIds : Done(f)
    /\ firings[a].doneAt < firings[b].fetchAt
    /\ firings[a].outcome.kind = "network"
    /\ firings[b].outcome.kind = "network"
    /\ firings[a].indicator = "spinner"
    /\ firings[b].indicator = "spinner"
    /\ firings[a].live /\ firings[b].live

\* C4: there is no cancellation: provided its network call settles, every
\* firing that issued a request runs its finalizer (one indicator
\* deactivation, one notification), also when its element has left the tree.
C4_EveryFiringFinalizes ==
  \A f \in 1..MaxFirings :
    (f \in FiringIds /\ Pending(f))
      ~> (/\ f \in FiringIds
          /\ Done(f)
          /\ CountStep(f, "indicatorOff") = 1
          /\ CountStep(f, "notify") = 1)

\* A firing ran its finalizer after its element had left the tree.
C4_Witness ==
  \E f \in FiringIds :
    /\ Done(f)
    /\ ~firings[f].elLive
    /\ CountStep(f, "notify") = 1

\* A parsed trigger that announces an interval and has no well-formed period.
Malformed(tr) ==
  /\ StartsWith(tr, everyPrefix)
  /\ ~MatchInterval(Trim(Drop(tr, Len(everyPrefix)))).ok

\* C5 as stated: whatever the trigger spec, the parsed list is not empty and
\* the bound element has at least one registered trigger; an absent or
\* empty spec gives the single click descriptor.
C5_AtLeastOneTrigger ==
  phase = "booted" =>
    /\ parseTriggers(decl["e1"].trigger) # <<>>
    /\ wired["e1"] # <<>>
    /\ ~Truthy(decl["e1"].trigger) => wired["e1"] = <<EventDescriptor(click)>>

\* C6 as stated: a malformed interval segment registers nothing and raises
\* nothing, the other segments are registered, and the element falls back
\* to the click trigger when no other segment is left.
C6_MalformedIntervalDropped ==
  LET trig == parseTriggers(decl["e1"].trigger)
      good == SelectSeq(trig, LAMBDA tr : ~Malformed(tr))
  IN (phase = "booted" /\ \E i \in 1..Len(trig) : Malformed(trig[i])) =>
       /\ rejected = {}
       /\ wired["e1"] = IF good = <<>> THEN <<EventDescriptor(click)>>
                        ELSE Registrations(good)

\* The requests issued by firings of element e.
RequestsOf(e) ==
  Cardinality({i \in 1..Len(fetches) : firings[fetches[i].f].el = e})

\* Timer t belongs to an element with a path whose only trigger is this
\* interval, of a positive period.
IntervalOnly(t) ==
  /\ Len(wired[timers[t].el]) = 1
  /\ timers[t].interval > 0
  /\ Truthy(decl[timers[t].el].get)

\* C7: an element bound to an interval of period P alone has issued k
\* requests to its path when k periods have elapsed: every tick of its timer
\* started one firing, in flight or not, and a success body is the content
\* at the target once the firing has settled.
C7_OneRequestPerPeriod ==
  \A t \in 1..Len(timers) :
    IntervalOnly(t) =>
      LET e == timers[t].el
          P == timers[t].interval
          k == timers[t].ticks
      IN /\ RequestsOf(e) = k
         /\ k * P <= now /\ now <= (k + 1) * P
         /\ timers[t].due = (k + 1) * P
         /\ \A f \in FiringIds :
              firings[f].el = e =>
                /\ firings[f].origin = "interval"
                /\ ~TruthyAttr(decl[e].include) => fetches[f].url = decl[e].get
                /\ (IsLastCompleted(f) /\ TakesEffect(f)
                    /\ firings[f].outcome.kind = "ok")
                     => Rendered(firings[f].target) = firings[f].outcome.text

\* Two periods of one second have elapsed, the second tick came while the
\* first request was in flight, and both requests got the body "ok".
C7_Witness ==
  /\ Len(timers) = 1
  /\ IntervalOnly(1)
  /\ timers[1].interval = 1000
  /\ now = 2000
  /\ Len(fetches) = 2
  /\ Len(firings) = 2
  /\ Done(1) /\ Done(2)
  /\ Overlap(1, 2)
  /\ firings[1].outcome = OkOutcome(<<"ok">>)
  /\ firings[2].outcome = OkOutcome(<<"ok">>)
  /\ firings[2].target = "out"
  /\ inner["out"] = <<"ok">>

Failed(f) == firings[f].outcome.kind \in {"http", "network"}

\* C8 as stated: no failure is thrown, and every failure ends with an error
\* block rendered at its target in the tree.
C8_EveryFailureRendered ==
  /\ rejected = {}
  /\ \A f \in FiringIds :
       (Done(f) /\ Failed(f) /\ IsLastCompleted(f)) =>
         /\ firings[f].target # Null
         /\ firings[f].live
         /\ Rendered(firings[f].target) = firings[f].html

\* C8 amended: a failure leaves its error block at the target, and nothing
\* is thrown, when the target is a node of the tree at the time the request
\* ends; the one error that escapes is that of replacing the document
\* element, which the catch block meets again.
C8_FailureRenderedWhereTargetIs ==
  /\ \A f \in rejected :
       firings[f].target = "root" /\ firings[f].swap = "outerHTML"
  /\ \A f \in FiringIds :
       (Done(f) /\ Failed(f) /\ TakesEffect(f)) =>
         /\ f \notin rejected
         /\ \/ firings[f].html = Warning(firings[f].outcome.message)
            \/ firings[f].html = Warning(firings[f].outcome.text)
            \/ firings[f].html = Warning(firings[f].outcome.statusText)
         /\ IsLastCompleted(f) => Rendered(firings[f].target) = firings[f].html

\* A failed firing has left its error block at a target that is in the tree.
C8_Witness ==
  \E f \in FiringIds :
    /\ Done(f) /\ Failed(f) /\ TakesEffect(f) /\ IsLastCompleted(f)
    /\ firings[f].target = "out"
    /\ inner["out"] = Warning(<<"Failed to fetch">>)

\* Markup m has the text x in it.
Contains(m, x) ==
  x = <<>> \/ \E i \in 1..Len(m) : \E j \in i..Len(m) : SubSeq(m, i, j) = x

\* The swap of a failed firing went the way of a successful one: into the
\* target under replace-contents, in its place under replace-node.
SwappedLikeSuccess(f) ==
  IF firings[f].swap = "outerHTML"
  THEN /\ firings[f].target \notin attached
       /\ outer[firings[f].target] = firings[f].html
  ELSE /\ firings[f].target \in attached
       /\ inner[firings[f].target] = firings[f].html

\* C9 as stated: the error block of a non-success response has the status
\* text and the response body in it; that of a network failure has the
\* error message.
C9_BlockHasStatusAndBody ==
  \A f \in FiringIds :
    (Done(f) /\ TakesEffect(f)) =>
      /\ firings[f].outcome.kind = "network"
           => Contains(firings[f].html, firings[f].outcome.message)
      /\ firings[f].outcome.kind = "http"
           => /\ Contains(firings[f].html, firings[f].outcome.statusText)
              /\ Contains(firings[f].html, firings[f].outcome.text)

\* C9 amended: the failed swap uses the target and strategy of the success
\* path; the block of a network failure is the error message; the block of
\* a non-success response is the response body when there is one, and the
\* status text only when the body is empty.
C9_BlockHasBodyOrStatus ==
  \A f \in FiringIds :
    (Done(f) /\ Failed(f) /\ TakesEffect(f)) =>
      /\ IsLastCompleted(f) => SwappedLikeSuccess(f)
      /\ firings[f].outcome.kind = "network"
           => firings[f].html = Warning(firings[f].outcome.message)
      /\ (firings[f].outcome.kind = "http" /\ firings[f].outcome.text # <<>>)
           => /\ firings[f].html = Warning(firings[f].outcome.text)
              /\ ~Contains(firings[f].html, firings[f].outcome.statusText)
      /\ (firings[f].outcome.kind = "http" /\ firings[f].outcome.text = <<>>)
           => firings[f].html = Warning(firings[f].outcome.statusText)

\* A non-success response with a body has been swapped in under replace-node.
C9_Witness ==
  \E f \in FiringIds :
    /\ Done(f) /\ TakesEffect(f) /\ IsLastCompleted(f)
    /\ firings[f].outcome = HttpOutcome(<<"Not Found">>, <<"gone">>)
    /\ firings[f].swap = "outerHTML"
    /\ outer[firings[f].target] = Warning(<<"gone">>)

\* The request of a firing without a target ends in this step.
SettlesWithoutTarget(f) ==
  /\ Pending(f)
  /\ firings'[f].state = "done"
  /\ firings[f].target = Null

\* C10: a target selector that matches no node at firing time gives a
\* firing without a target, and no selector gives the element itself; the
\* firing without a target issues its request and runs its finalizer, no
\* error escapes it, and the step that ends it changes no node.
C10_MissingTargetIsNoOp ==
  /\ [](\A f \in FiringIds :
          /\ ~TruthyAttr(decl[firings[f].el].target)
               => firings[f].target = firings[f].el
          /\ decl[firings[f].el].target = "#missing" => firings[f].target = Null
          /\ firings[f].target = Null
               => /\ fetches[f].f = f
                  /\ f \notin rejected
                  /\ Done(f) => CountStep(f, "notify") = 1)
  /\ [][\A f \in FiringIds :
          SettlesWithoutTarget(f) => UNCHANGED <<attached, inner, outer>>]_vars

\* Firings without a target have completed on a success and on a failure,
\* and the tree is as it was at the start.
C10_Witness ==
  \E a, b \in FiringIds :
    /\ Done(a) /\ Done(b)
    /\ firings[a].target = Null /\ firings[b].target = Null
    /\ firings[a].outcome.kind = "ok"
    /\ Failed(b)
    /\ attached = Nodes
    /\ \A n \in Nodes : inner[n] = <<"initial">>

\* The strategy of firing f: the hx-swap attribute, innerHTML without one.
DeclaredSwap(f) == decl[firings[f].el].swap

\* C11: a success response swapped into a target that is in the tree (below
\* the document element under replace-node): under innerHTML the target
\* stays in the tree, nothing has taken its place, and its content is the
\* response; under outerHTML the target is out of the tree and the response
\* is in its place; any other strategy name does what innerHTML does, and
\* so does a missing hx-swap attribute.
C11_SwapSemantics ==
  \A f \in FiringIds :
    (IsLastCompleted(f) /\ TakesEffect(f) /\ firings[f].outcome.kind = "ok") =>
      LET t == firings[f].target
          body == firings[f].outcome.text
      IN /\ firings[f].swap = (IF TruthyAttr(DeclaredSwap(f)) THEN DeclaredSwap(f)
                               ELSE "innerHTML")
         /\ DeclaredSwap(f) = "outerHTML"
              => /\ t \notin attached
                 /\ outer[t] = body
         /\ DeclaredSwap(f) # "outerHTML"
              => /\ t \in attached
                 /\ inner[t] = body
                 /\ outer[t] = <<>>

\* The response "<b>hi</b>" has been swapped in under a strategy name the
\* code does not know.
C11_Witness ==
  \E f \in FiringIds :
    /\ IsLastCompleted(f) /\ TakesEffect(f)
    /\ DeclaredSwap(f) = "beforeend"
    /\ firings[f].outcome = OkOutcome(<<"<b>hi</b>">>)
    /\ firings[f].target = "out"
    /\ "out" \in attached
    /\ inner["out"] = <<"<b>hi</b>">>

\* The selector of the controls firing f includes.
IncludeOf(f) == decl[firings[f].el].include

\* Control c is left out by the collector whatever it matches.
Excluded(c) ==
  \/ c.disabled
  \/ ~Truthy(c.name)
  \/ c.type \in {"checkbox", "radio"} /\ ~c.checked

\* C12: the parameters of a firing hold no value of a control that was then
\* disabled, an unchecked checkbox or radio button, or without a name (the
\* controls of a page have values of their own), every entry has a name,
\* and without an include selector there are no parameters.
C12_ExcludedControlsNeverSent ==
  \A f \in FiringIds :
    LET cs == firings[f].controlsAt
        ps == firings[f].params
    IN /\ \A i \in 1..Len(cs) :
            Excluded(cs[i]) => \A k \in 1..Len(ps) : ps[k].value # cs[i].value
       /\ \A k \in 1..Len(ps) : Truthy(ps[k].name)
       /\ ~TruthyAttr(IncludeOf(f)) => ps = <<>> /\ fetches[f].url = decl[firings[f].el].get

\* A firing found an unchecked checkbox next to a text field and sent the
\* text field alone.
C12_Witness ==
  \E f \in FiringIds :
    LET cs == firings[f].controlsAt
    IN /\ Len(cs) = 2
       /\ cs[1].type = "checkbox" /\ ~cs[1].checked /\ ~cs[1].disabled
       /\ cs[1].name = NameQ
       /\ firings[f].params = <<[name |-> NameQ, value |-> ValB]>>

\* The entry the collector appends for control c: its name and live value.
LiveEntry(c) == [name |-> c.name, value |-> c.value]

\* Firing f includes control c, as c was when f started: the controls were
\* then in the document, c matches the selector and is not left out.
Included(f, c) ==
  firings[f].controlsIn /\ IncludeOf(f) \in c.matches /\ ~Excluded(c)

\* C13: the parameters of a firing are those of the controls as they were
\* when the trigger fired, whatever they were when the page was scanned:
\* every entry is the live value of an included control, one that was then
\* in the document, and every included control has its entry; the request
\* issued and the parameters do not follow what the user does to the
\* controls afterwards.
C13_ParamsLiveAtFiringTime ==
  \A f \in FiringIds :
    LET cs == firings[f].controlsAt
        ps == firings[f].params
    IN /\ \A k \in 1..Len(ps) :
            \E i \in 1..Len(cs) : Included(f, cs[i]) /\ ps[k] = LiveEntry(cs[i])
       /\ \A i \in 1..Len(cs) :
            Included(f, cs[i]) => \E k \in 1..Len(ps) : ps[k] = LiveEntry(cs[i])
       /\ fetches[f].url = firings[f].url
       /\ ps = <<>> <=> fetches[f].url = decl[firings[f].el].get

\* A text field was edited after the scan and before a firing, which sent
\* the edited value, and edited again while the request was in flight; the
\* response took the controls out of the document, and the next firing of
\* the element sent no parameter.
C13_Witness ==
  \E f \in FiringIds : \E g \in FiringIds :
    LET cs == firings[f].controlsAt
    IN /\ Done(f)
       /\ Len(cs) = 1
       /\ cs[1].type = "text"
       /\ cs[1].defaultValue = ValA
       /\ cs[1].value = ValC
       /\ controls[1].value = ValA
       /\ firings[f].params = <<[name |-> NameQ, value |-> ValC]>>
       /\ fetches[f].url = PathX \o <<"?", "q", "=", "c">>
       /\ f < g
       /\ ~firings[g].controlsIn
       /\ firings[g].params = <<>>
       /\ fetches[g].url = PathX

\* The places, in tree order, of the controls firing f includes.
IncludedAt(f) ==
  SelectSeq([i \in 1..Len(firings[f].controlsAt) |-> i],
            LAMBDA i : Included(f, firings[f].controlsAt[i]))

\* C14: the parameters of a firing are a sequence with one entry for each
\* included control, in the order of the controls in the tree; a control
\* whose name an earlier control has adds an entry and replaces none.
C14_ParamsInTreeOrder ==
  \A f \in FiringIds :
    LET cs == firings[f].controlsAt
        at == IncludedAt(f)
        ps == firings[f].params
    IN /\ Len(ps) = Len(at)
       /\ \A k \in 1..Len(ps) : ps[k] = LiveEntry(cs[at[k]])
       /\ fetches[f].url = FinalUrl(decl[firings[f].el].get, ps)

\* Two text fields of one name were sent as two entries, the first in the
\* tree first.
C14_Witness ==
  \E f \in FiringIds :
    /\ firings[f].params = <<[name |-> NameQ, value |-> ValA],
                             [name |-> NameQ, value |-> ValB]>>
    /\ fetches[f].url = PathX \o <<"?", "q", "=", "a", "&", "q", "=", "b">>

\* C15: the path requested is the declared path when there are no
\* parameters; otherwise the declared path, a "?" when it has none and a "&"
\* when it has one, and the encoded parameters: the declared path, query
\* included, is always the beginning of the path requested.
C15_FinalPathKeepsQuery ==
  \A f \in FiringIds :
    LET path == decl[firings[f].el].get
        ps == firings[f].params
        url == fetches[f].url
    IN /\ ps = <<>> => url = path
       /\ (ps # <<>> /\ ~Includes(path, "?"))
            => url = path \o <<"?">> \o ParamsToString(ps)
       /\ (ps # <<>> /\ Includes(path, "?"))
            => url = path \o <<"&">> \o ParamsToString(ps)
       /\ StartsWith(url, path)

\* The value "a b" of the field q went behind the query of the path /y?a=1.
C15_Witness ==
  \E f \in FiringIds :
    /\ decl[firings[f].el].get = PathY
    /\ firings[f].params = <<[name |-> NameQ, value |-> <<"a", " ", "b">>]>>
    /\ fetches[f].url =
         <<"/", "y", "?", "a", "=", "1", "&", "q", "=", "a", "+", "b">>

\* The firings a ready trigger of element e started.
ReadyFirings(e) ==
  {f \in FiringIds : firings[f].el = e /\ firings[f].origin = "ready"}

\* The ready triggers setupElement found on element e.
ReadyWired(e) == Len(SelectSeq(wired[e], LAMBDA d : d.kind = "ready"))

\* C16: each ready trigger of a bound element with a path fires once in the
\* whole run.  Nothing fires before the element is bound; binding happens
\* when the script runs on a document that is no longer loading, and
\* otherwise when the document becomes interactive, and the ready triggers
\* fire in that step; whatever happens later adds no ready firing.
C16_ReadyFiresOnce ==
  /\ phase = "booted" => readyState # "loading"
  /\ deferred = <<>>
  /\ \A e \in ElemSet :
       /\ phase # "booted" => wired[e] = <<>> /\ ReadyFirings(e) = {}
       /\ (phase = "booted" /\ Truthy(decl[e].get))
            => Cardinality(ReadyFirings(e)) = ReadyWired(e)
  /\ \A f, g \in FiringIds :
       (firings[f].origin = "ready" /\ firings[g].origin # "ready") => f < g

\* The one ready firing of an element has completed and two firings of
\* another element have followed it.
C16_Witness ==
  \E e \in ElemSet :
    /\ ReadyWired(e) = 1
    /\ ReadyFirings(e) = {1}
    /\ Done(1)
    /\ Len(firings) = 3
    /\ firings[2].origin = "event" /\ firings[3].origin = "event"
    /\ Done(3)

\* The ticks of the timers from timer i on.
RECURSIVE TicksFrom(_)
TicksFrom(i) == IF i > Len(timers) THEN 0 ELSE timers[i].ticks + TicksFrom(i + 1)

\* The trigger activations so far: ready triggers that fired, timer ticks,
\* and events a listener handled.
Activations ==
  Cardinality({f \in FiringIds : firings[f].origin = "ready"})
    + TicksFrom(1) + Len(defaults)

\* C17: nothing is retried.  Every firing has one request and one fetch
\* step, whatever its outcome, and there are no more requests than trigger
\* activations: as many, when every bound element has a path.
C17_NothingRetried ==
  /\ Len(fetches) = Len(firings)
  /\ \A f \in FiringIds :
       /\ fetches[f].f = f
       /\ trace[firings[f].fetchAt] = Step(f, "fetch")
  /\ Cardinality({i \in 1..Len(trace) : trace[i].step = "fetch"}) = Len(fetches)
  /\ Len(fetches) <= Activations
  /\ (\A e \in ElemSet : decl[e].get # NoAttr => Truthy(decl[e].get))
       => Len(fetches) = Activations

\* Two activations, two requests, one failed on the network and one on a
\* non-success response, and nothing is in flight.
C17_Witness ==
  /\ Len(firings) = 2
  /\ Activations = 2
  /\ Len(fetches) = 2
  /\ Done(1) /\ Done(2)
  /\ firings[1].outcome.kind = "network"
  /\ firings[2].outcome.kind = "http"
  /\ firings[1].doneAt < firings[2].fetchAt

\* The notify steps taken so far, in order.
Notified == SelectSeq(trace, LAMBDA s : s.step = "notify")

\* C18: the events dispatched are, in order, those of the firings that have
\* completed; each is an htmx:afterRequest event whose detail carries, as
\* requestConfig, the verb "get" and the path that firing requested, query
\* parameters included.
C18_EventCarriesVerbAndPath ==
  LET done == Notified
  IN /\ Len(events) = Len(done)
     /\ \A k \in 1..Len(events) :
          /\ events[k].type = "htmx:afterRequest"
          /\ events[k].detail.requestConfig.verb = "get"
          /\ events[k].detail.requestConfig.path = fetches[done[k].f].url
          /\ DOMAIN events[k].detail.requestConfig = {"verb", "path"}

\* The event of a firing whose path got a query parameter appended.
C18_Witness ==
  \E k \in 1..Len(events) :
    /\ firings[Notified[k].f].params # <<>>
    /\ events[k].detail.requestConfig =
         [verb |-> "get",
          path |-> <<"/", "y", "?", "a", "=", "1", "&", "q", "=", "a", "+", "b">>]

\* The period in milliseconds of "every N" followed by unit u.
ExpectedPeriod(n, u) == IF u = <<"s">> THEN n * 1000 ELSE n

\* The interval descriptors setupElement found on element e.
IntervalsWired(e) == SelectSeq(wired[e], LAMBDA d : d.kind = "interval")

\* C19 as stated: once the element is bound, "every Ns" has armed one timer
\* of period N * 1000 ms, for whole N and for N with a fraction, and
\* "every Nms" and "every N" one timer of period N ms; and there is one
\* timer for each interval descriptor.
C19_IntervalPeriod ==
  phase = "booted" =>
    /\ \A n \in Periods : \A u \in Units :
         decl["e1"].trigger = IntervalSpec(n, u) =>
           /\ Len(timers) = 1
           /\ timers[1].el = "e1"
           /\ timers[1].interval = ExpectedPeriod(n, u)
    /\ \A n \in {0, 1, 2} : \A fr \in Fractions :
         decl["e1"].trigger = FractionSpec(n, fr) =>
           /\ Len(timers) = 1
           /\ timers[1].el = "e1"
           /\ timers[1].interval * Pow10(Len(fr))
                = (n * Pow10(Len(fr)) + ToNat(fr)) * 1000
    /\ Len(timers) = Len(IntervalsWired("e1")) + Len(IntervalsWired("e2"))

\* The tag name of an anchor.
AnchorLike == {"A"}

\* The firing that the k-th handled event started: the one whose first step
\* follows the steps taken before the listener ran.
FiringOf(k) == {f \in FiringIds : firings[f].fetchAt = defaults[k].at + 4}

\* C20 as stated: every event a listener handles on an anchor-like element
\* has its default suppressed, whatever the event.
C20_AnchorDefaultSuppressed ==
  \A k \in 1..Len(defaults) :
    decl[defaults[k].el].tag \in AnchorLike => defaults[k].prevented

\* C20 amended: the default of an event is suppressed when, and only when,
\* the event is a click and the element's tag name is A; the listener
\* suppresses it before it starts the firing; the events of other
\* descriptors and the clicks on other elements keep their default.
C20_ClickOnAnchorSuppressed ==
  \A k \in 1..Len(defaults) :
    /\ defaults[k].prevented
         <=> (defaults[k].name = click /\ decl[defaults[k].el].tag = "A")
    /\ Cardinality(FiringOf(k)) = 1
    /\ \A f \in FiringOf(k) :
         firings[f].el = defaults[k].el /\ firings[f].origin = "event"

\* A click and a keyup were handled on one anchor: the click was suppressed,
\* the keyup was not, and both firings have completed.
C20_Witness ==
  \E j, k \in 1..Len(defaults) :
    /\ defaults[j].el = defaults[k].el
    /\ decl[defaults[j].el].tag = "A"
    /\ defaults[j].name = click /\ defaults[j].prevented
    /\ defaults[k].name = keyup /\ ~defaults[k].prevented
    /\ \A f \in FiringOf(j) \cup FiringOf(k) : Done(f)

\* ------------------------------------------- pages where firings overlap

\* One element bound to a click for each target and strategy, to the
\* document element, on a page without an indicator, to a timer with its own
\* node as the target, and next to an element whose response replaces it.
OverlapPages ==
  {Page(Button(NoAttr, tg, sw), Plain, "#spinner", <<>>) :
     tg \in {None, "#out"}, sw \in {None, "outerHTML"}}
    \cup {Page(Button(NoAttr, "#root", "outerHTML"), Plain, "#spinner", <<>>),
          Page(Button(NoAttr, "#out", None), Plain, None, <<>>),
          Page(Button(Every1s, None, "outerHTML"), Plain, "#spinner", <<>>),
          Page(Button(NoAttr, "#out", None), Button(load, "#e1", "outerHTML"),
               "#spinner", <<>>)}

InitOverlap == \E p \in OverlapPages : InitOn(p)

SpecOverlap == InitOverlap /\ [][Next]_vars

\* The names of the steps of firing f, in the order they were taken.
StageNames(f) ==
  LET st == StepsOf(f) IN [i \in 1..Len(st) |-> st[i].step]

\* The stages before the first await, and the stages after the last one with one call of
\* applySwap, or with two when the first one threw.
BeforeAwait == <<"collect", "resolve", "indicatorOn", "fetch">>
AfterAwait == {<<"swap", "indicatorOff", "notify">>,
               <<"swap", "swap", "indicatorOff", "notify">>}

\* C21: the stages of a firing are in one order: parameters, target,
\* indicator on and request, in one step of the event loop at trigger
\* time; then, in one step once the outcome is known, the swap, indicator
\* off, and the notification last.  No step of another firing comes between
\* the stages of either group: the request is the only suspension point.
C21_StagesInOrder ==
  \A f \in FiringIds :
    LET names == StageNames(f)
        at == firings[f].fetchAt
        n == Len(names) - 4
    IN /\ \A i \in 1..4 : trace[at - 4 + i] = Step(f, BeforeAwait[i])
       /\ Pending(f) => names = BeforeAwait
       /\ Done(f) =>
            /\ SubSeq(names, 1, 4) = BeforeAwait
            /\ SubSeq(names, 5, Len(names)) \in AfterAwait
            /\ \E k \in 1..Len(trace) :
                 /\ k > at
                 /\ \A i \in 1..n : trace[k - 1 + i].f = f
            /\ Len(events) >= 1

\* Two firings overlapped: the second started between the two groups of
\* stages of the first, and both have completed.
C21_Witness ==
  \E a, b \in FiringIds :
    /\ a < b /\ Done(a) /\ Done(b)
    /\ firings[b].fetchAt < firings[a].doneAt
    /\ firings[a].doneAt < firings[b].doneAt
    /\ firings[a].outcome.kind = "ok"
    /\ firings[b].outcome.kind = "network"

\* Firing b of an element started while its firing a was in flight.
StartedDuring(a, b) ==
  /\ a < b
  /\ firings[a].el = firings[b].el
  /\ Pending(a) \/ firings[b].fetchAt < firings[a].doneAt

\* The call of requestFor that started firing b came straight from the
\* listener: the event was handled where the trace stood four steps before
\* the fetch of b.
StartedAtOnce(b) ==
  firings[b].origin = "event" =>
    \E k \in 1..Len(defaults) :
      /\ defaults[k].el = firings[b].el
      /\ defaults[k].at + 4 = firings[b].fetchAt

\* Firing x, once its request has ended, called applySwap and ran the
\* finally block.
SwappedAndFinalized(x) ==
  Done(x) =>
    /\ trace[firings[x].doneAt - 2] = Step(x, "swap")
    /\ trace[firings[x].doneAt] = Step(x, "notify")

\* C22: there is no concurrency guard.  A firing b of an element that starts
\* while firing a of that element is in flight starts at once, and neither
\* is dropped or cancelled: every event a listener handled started a firing,
\* each of the two has its own request, and each, when its request has
\* ended, its own swap and its own finalizer.
C22_NoConcurrencyGuard ==
  /\ \A e \in ElemSet :
       Truthy(decl[e].get) =>
         Cardinality({k \in 1..Len(defaults) : defaults[k].el = e})
           = Cardinality({f \in FiringIds : /\ firings[f].el = e
                                            /\ firings[f].origin = "event"})
  /\ \A a, b \in FiringIds :
       StartedDuring(a, b) =>
         /\ StartedAtOnce(b)
         /\ fetches[a].f = a /\ fetches[b].f = b
         /\ trace[firings[a].fetchAt] = Step(a, "fetch")
         /\ trace[firings[b].fetchAt] = Step(b, "fetch")
         /\ SwappedAndFinalized(a)
         /\ SwappedAndFinalized(b)

\* Two clicks on one element, the second before the response to the first;
\* both requests have ended, the first one first.
C22_Witness ==
  \E a, b \in FiringIds :
    /\ StartedDuring(a, b)
    /\ firings[a].origin = "event" /\ firings[b].origin = "event"
    /\ Done(a) /\ Done(b)
    /\ firings[a].doneAt < firings[b].doneAt

MaxOf(S) == IF S = {} THEN 0 ELSE CHOOSE x \in S : \A y \in S : y <= x

\* Where in the trace the class was last added to node n, and where it was
\* last removed from it (0: never).
LastOn(n) == MaxOf({firings[f].fetchAt : f \in {g \in FiringIds : firings[g].indicator = n}})
LastOff(n) ==
  MaxOf({firings[f].doneAt :
           f \in {g \in FiringIds : firings[g].indicator = n /\ Done(g)}})

\* C23: the indicator is one class on one node, set and cleared, not
\* counted: the node has the class exactly when the last firing to touch it
\* added it, whatever other firings are in flight, and no node other than
\* one a firing resolved as the indicator ever has it.
C23_IndicatorIsBoolean ==
  /\ \A n \in Nodes : n \in classes <=> LastOn(n) > LastOff(n)
  /\ classes \subseteq {firings[f].indicator : f \in FiringIds}
  /\ Null \notin classes

\* Two firings overlapped, one has ended and taken the class off the
\* indicator, the other is still in flight.
C23_Witness ==
  \E a, b \in FiringIds :
    /\ a # b
    /\ Done(a) /\ Pending(b)
    /\ firings[b].fetchAt < firings[a].doneAt
    /\ firings[a].indicator = "spinner"
    /\ firings[b].indicator = "spinner"
    /\ "spinner" \notin classes

\* ------------------------------------------------- pages bound to a timer

\* An element bound to an interval, alone or with the click trigger.
TimerPages ==
  IntervalPages
    \cup {Page(Button(ClickAndEvery, None, "outerHTML"), Plain, "#spinner", <<>>)}

InitTimers == \E p \in TimerPages : InitOn(p)

NextTimers ==
  \/ Script
  \/ DOMContentLoaded
  \/ \E el \in ElemSet : Activate(el, click)
  \/ \E t \in 1..Len(timers) : TimerFire(t)
  \/ \E f \in 1..Len(firings), out \in Outcomes : Respond(f, out)
  \/ \E f \in 1..Len(firings), out \in Outcomes : Settle(f, out)

SpecTimers == InitTimers /\ [][NextTimers]_vars

\* The timers armed for element e.
TimersOf(e) == SelectSeq(timers, LAMBDA t : t.el = e)

\* The firings of element e that a tick of a timer started.
TickFirings(e) ==
  {f \in FiringIds : firings[f].el = e /\ firings[f].origin = "interval"}

\* C24: a timer is armed once for each interval descriptor when the element
\* is bound and is never cleared: it is there in every later state, each of
\* its ticks has started a firing, and its next tick can come whether or not
\* the element is still in the tree and however the earlier requests ended.
C24_TimerNeverCleared ==
  phase = "booted" =>
    /\ \A e \in ElemSet :
         /\ Len(TimersOf(e)) = Len(IntervalsWired(e))
         /\ \A i \in 1..Len(TimersOf(e)) :
              TimersOf(e)[i].interval = IntervalsWired(e)[i].periodMs
    /\ \A t \in 1..Len(timers) :
         /\ timers[t].due = (timers[t].ticks + 1) * timers[t].interval
         /\ Len(wired[timers[t].el]) = 1 =>
              Cardinality(TickFirings(timers[t].el)) = timers[t].ticks
    /\ (timers # <<>> /\ calls < MaxFirings) =>
         ENABLED (\E t \in 1..Len(timers) : TimerFire(t))

\* The response to a tick's request was a failure, its warning took the
\* place of the element, and a later tick started a firing all the same.
C24_Witness ==
  \E a, b \in FiringIds :
    /\ Done(a) /\ Failed(a)
    /\ firings[a].target = firings[a].el
    /\ firings[a].swap = "outerHTML"
    /\ firings[a].el \notin attached
    /\ firings[b].el = firings[a].el
    /\ firings[b].origin = "interval"
    /\ firings[b].fetchAt > firings[a].doneAt

\* --------------------------------- pages whose responses bring an element

\* Element e1 bound to a click, with a node, itself or the body as its
\* target; element e2 with a request declaration of its own.
ScanPages ==
  {Page(Button(NoAttr, tg, sw), Button(NoAttr, None, None), "#spinner", <<>>) :
     tg \in {"#out", None, "#body"}, sw \in {None, "outerHTML"}}

\* What a request ends as here: markup with or without element e2 in it,
\* or no response.
ScanOutcomes ==
  {OkOutcome(<<"ok">>), OkOutcome(LateMarkup),
   HttpOutcome(<<"Not Found">>, LateMarkup),
   NetworkOutcome(<<"Failed to fetch">>)}

\* Element e2 is in the tree the script scans, or is not there yet.
InitScan ==
  \E p \in ScanPages, tree \in {Nodes, Nodes \ {"e2"}} : InitOnTree(p, tree)

\* A response brings element e2 only to a page whose tree did not hold it
\* when the script scanned it: the element a response brings is a new node.
NextScan ==
  \/ Script
  \/ DOMContentLoaded
  \/ \E el \in ElemSet : Activate(el, click)
  \/ \E f \in 1..Len(firings) : \E out \in ScanOutcomes : Respond(f, out)
  \/ \E f \in 1..Len(firings) : \E out \in ScanOutcomes :
       /\ \A e \in ElementsIn(out.text) : e \notin attached /\ wired[e] = <<>>
       /\ Settle(f, out)

SpecScan == InitScan /\ [][NextScan]_vars

\* The listeners registered on element e.
ListenersOf(e) == SelectSeq(listeners, LAMBDA l : l.el = e)

\* The step in which boot runs: each element with an hx-get attribute that
\* is in the tree is set up, once, and no other element.
BootWiresTheTree ==
  (phase # "booted" /\ phase' = "booted") =>
    \A e \in ElemSet :
      wired'[e] = IF decl[e].get # NoAttr /\ e \in attached
                  THEN Descriptors(decl[e].trigger) ELSE <<>>

\* A step after boot: what is bound stays as it is.
BoundSetFixed ==
  phase = "booted" =>
    /\ wired' = wired
    /\ listeners' = listeners
    /\ deferred' = deferred
    /\ Len(timers') = Len(timers)

\* C25: the tree is scanned once, at startup.  Each element with a request
\* declaration in the tree at that moment is wired once, with one listener
\* for each of its event descriptors; after that the bound elements are the
\* same for good, and an element that comes into the tree with the markup of
\* a swap has no listener and no timer and never starts a firing.
C25_BoundAtBootOnly ==
  /\ [](\A e \in ElemSet :
          /\ Len(ListenersOf(e))
               = Len(SelectSeq(wired[e], LAMBDA d : d.kind = "event"))
          /\ Len(TimersOf(e)) = Len(IntervalsWired(e))
          /\ wired[e] = <<>> =>
               \A f \in FiringIds : firings[f].el # e)
  /\ [][BootWiresTheTree /\ BoundSetFixed]_vars

\* Element e2 came into the tree with the markup of a swap after boot, has
\* a request declaration, and is not bound.
C25_Witness ==
  /\ phase = "booted"
  /\ "e2" \in attached
  /\ Truthy(decl["e2"].get)
  /\ wired["e2"] = <<>>
  /\ wired["e1"] # <<>>
  /\ \E f \in FiringIds : Done(f) /\ ElementsIn(firings[f].html) = {"e2"}

\* --------------------------------------- pages with a malformed declaration

LoadAndClick == load \o <<",">> \o click
EveryAbc == <<"e", "v", "e", "r", "y", " ", "a", "b", "c">>

\* Declarations with something wrong: a selector of included controls or of
\* the target that is not valid, on an element bound to a ready trigger and
\* a click; a trigger spec with an interval that is no number, or with no
\* segment at all.
FaultyDecls ==
  {[Button(LoadAndClick, "#out", None) EXCEPT !.include = "!!"],
   Button(LoadAndClick, "!!", None),
   Button(EveryAbc, "#out", None),
   Button(<<",">>, "#out", None)}

\* A declaration with nothing wrong, bound to a ready trigger and a click.
SoundDecl == Button(LoadAndClick, "#out", None)

\* One element with a faulty declaration before or after one with a sound
\* one, and a page whose indicator selector is not valid.
FaultyPages ==
  {Page(d, SoundDecl, "#spinner", <<>>) : d \in FaultyDecls}
    \cup {Page(SoundDecl, d, "#spinner", <<>>) : d \in FaultyDecls}
    \cup {Page(SoundDecl, Plain, "!!", <<>>)}

InitFaulty == \E p \in FaultyPages : InitOn(p)

NextFaulty ==
  \/ Script
  \/ DOMContentLoaded
  \/ \E el \in ElemSet : Activate(el, click)
  \/ \E f \in 1..Len(firings) : \E out \in Outcomes : Respond(f, out)
  \/ \E f \in 1..Len(firings) : \E out \in Outcomes : Settle(f, out)

SpecFaulty == InitFaulty /\ [][NextFaulty]_vars

\* The calls of requestFor for element e that a trigger of kind origin made
\* and that started a firing, and those that threw before the fetch.
FiringsFrom(e, origin) ==
  Cardinality({f \in FiringIds : firings[f].el = e /\ firings[f].origin = origin})
AbortedFrom(e, origin) ==
  Cardinality({k \in 1..Len(aborted) : aborted[k].el = e /\ aborted[k].origin = origin})

\* The ready triggers of element e that have fired, and the events its
\* listeners have handled.
ReadyFired(e) ==
  IF phase = "booted"
  THEN Len(SelectSeq(wired[e], LAMBDA d : d.kind = "ready")) ELSE 0
Handled(e) == Cardinality({k \in 1..Len(defaults) : defaults[k].el = e})

\* C26: a malformed declaration on one element stops no other element.  Once
\* the script has booted every declared element is wired, the faulty ones
\* too and those after them, with every trigger the parser found; an
\* activation of an element whose selectors are valid starts a firing
\* whatever happened to the others; a call whose selector is not valid
\* throws before the indicator is switched on and before the fetch, and the
\* indicator is off when no firing is in flight.
C26_FaultStaysLocal ==
  /\ phase = "booted" =>
       \A e \in ElemSet :
         /\ wired[e] = IF decl[e].get # NoAttr
                        THEN Descriptors(decl[e].trigger) ELSE <<>>
         /\ Len(ListenersOf(e))
              = Len(SelectSeq(wired[e], LAMBDA d : d.kind = "event"))
  /\ \A e \in ElemSet :
       IF ThrowsAt(e) = "none"
       THEN /\ FiringsFrom(e, "ready") = ReadyFired(e)
            /\ FiringsFrom(e, "event") = Handled(e)
            /\ \A k \in 1..Len(aborted) : aborted[k].el # e
       ELSE /\ AbortedFrom(e, "ready") = ReadyFired(e)
            /\ AbortedFrom(e, "event") = Handled(e)
            /\ \A f \in FiringIds : firings[f].el # e
  /\ (\A f \in FiringIds : Done(f)) => classes = {}
  /\ Len(fetches) = Len(firings)

\* The first element's ready trigger threw while the script booted; the
\* second element was wired all the same and has fired on its own ready
\* trigger and on a click since; the indicator is off.
C26_Witness ==
  /\ phase = "booted"
  /\ \E j \in 1..Len(aborted) :
       /\ aborted[j].el = "e1" /\ aborted[j].origin = "ready"
       /\ aborted[j].stage = "collect"
  /\ \E a, b \in FiringIds :
       /\ firings[a].el = "e2" /\ firings[a].origin = "ready"
       /\ firings[b].el = "e2" /\ firings[b].origin = "event"
       /\ Done(a) /\ Done(b)
  /\ classes = {}

\* The request of firing f ends in this step.
Settles(f) == f \in FiringIds /\ Pending(f) /\ firings'[f].state = "done"

\* What shows of the tree is the same after the step: the nodes in it, their
\* content, and the markup that took the place of the nodes replaced.
VisibleTreeUnchanged ==
  /\ attached' = attached
  /\ \A n \in attached : inner'[n] = inner[n]
  /\ outer' = outer

\* C27: a firing keeps the node it resolved as its target when it was
\* triggered.  When that node is out of the tree by the time the firing's
\* request ends, the firing's swap changes nothing that shows, and its
\* finalizer runs: the class is off the indicator it resolved and the event
\* has gone out.
C27_SwapOnDetachedNode ==
  /\ [](\A f \in FiringIds :
          (Done(f) /\ firings[f].target # Null /\ ~firings[f].live) =>
            /\ SwappedAndFinalized(f)
            /\ f \notin rejected)
  /\ [][\A f \in FiringIds :
          /\ firings'[f].target = firings[f].target
          /\ (Settles(f) /\ firings[f].target # Null
                /\ firings[f].target \notin attached) =>
               /\ VisibleTreeUnchanged
               /\ firings[f].indicator # Null =>
                    firings[f].indicator \notin classes'
               /\ Len(events') = Len(events) + 1]_vars

\* Two firings resolved the same node; the swap of one replaced it, and the
\* other completed after that: what shows is the markup of the first.
C27_Witness ==
  \E f, g \in FiringIds :
    /\ f # g
    /\ Done(f) /\ Done(g)
    /\ firings[g].swap = "outerHTML"
    /\ firings[g].target = firings[f].target
    /\ firings[g].live /\ ~firings[f].live
    /\ firings[f].fetchAt < firings[g].doneAt
    /\ firings[g].doneAt < firings[f].doneAt
    /\ outer[firings[f].target] = firings[g].html
    /\ firings[f].html # firings[g].html

\* ------------------------------------------ pages whose path comes and goes

\* One element bound to a ready trigger and a click, or to a click and a
\* timer, with a path or with an empty one, and with a selector of included
\* controls that is valid, or not valid.
PathPage(tr, g, inc) ==
  Page([Button(tr, "#out", None) EXCEPT !.get = g, !.include = inc],
       Plain, "#spinner", <<TextControl(<<"q">>, <<"a">>)>>)

PathPages ==
  {PathPage(LoadAndClick, PathX, "#form input"),
   PathPage(LoadAndClick, <<>>, "#form input"),
   PathPage(ClickAndEvery, PathX, "#form input"),
   PathPage(ClickAndEvery, <<>>, "!!")}

\* What a request ends as here: a success or no response.
PathOutcomes == {OkOutcome(<<"ok">>), NetworkOutcome(<<"Failed to fetch">>)}

InitPath == \E p \in PathPages : InitOn(p)

\* A script of the page sets the hx-get attribute of a bound element, or
\* removes it.
SetPath(el, v) ==
  /\ phase = "booted"
  /\ wired[el] # <<>>
  /\ decl[el].get # v
  /\ decl' = [decl EXCEPT ![el].get = v]
  /\ UNCHANGED <<readyState, phase, bodyIndicator, controls, listeners, timers,
                 deferred, wired, now, dom, classes, firings, fetches, events,
                 trace, calls, rejected, defaults, aborted>>

NextPath ==
  \/ Script
  \/ DOMContentLoaded
  \/ \E el \in ElemSet : Activate(el, click)
  \/ \E t \in 1..Len(timers) : TimerFire(t)
  \/ \E f \in 1..Len(firings) : \E out \in PathOutcomes : Respond(f, out)
  \/ \E f \in 1..Len(firings) : \E out \in PathOutcomes : Settle(f, out)
  \/ \E el \in ElemSet : \E v \in {NoAttr, PathX} : SetPath(el, v)

SpecPath == InitPath /\ [][NextPath]_vars

\* The elements requestFor is called for in this step: those whose listener
\* handles an event, whose timer ticks, or whose ready trigger fires as the
\* script boots.
CalledIn ==
  {defaults'[k].el : k \in (Len(defaults) + 1)..Len(defaults')}
    \cup {timers[t].el :
            t \in {u \in 1..Len(timers) : timers'[u].ticks > timers[u].ticks}}
    \cup {e \in ElemSet :
            /\ phase # "booted" /\ phase' = "booted"
            /\ \E i \in 1..Len(wired'[e]) : wired'[e][i].kind = "ready"}

\* C28: a call of requestFor for an element whose path is empty or absent
\* when the trigger activates returns at once: no parameters are collected
\* and no selector is handed to the document, no request is issued, the
\* indicator is not touched, nothing is swapped and no event goes out.
C28_NoPathNoEffect ==
  [][(calls' > calls /\ \A e \in CalledIn : ~Truthy(decl[e].get)) =>
       UNCHANGED <<firings, fetches, classes, events, trace, attached, inner,
                   outer, rejected, aborted>>]_vars

\* A firing of the element has completed, then its path was removed, and a
\* click after that was handled and started nothing.
C28_Witness ==
  /\ decl["e1"].get = NoAttr
  /\ decl["e1"].include = "#form input"
  /\ Len(firings) = 1 /\ Done(1)
  /\ aborted = <<>>
  /\ calls = 3
  /\ Len(defaults) >= 1
  /\ defaults[Len(defaults)].at = Len(trace)

====
